---- MODULE Spec2Model ----
(***************************************************************************)
(* A model of the BAiSED Factory core: the atomic commit merge, the        *)
(* ownership map, and the orchestrator BAiSEDFactory.execute.              *)
(*                                                                         *)
(* Three specifications share the variables below:                         *)
(*   SpecMerge  one call of mergeCommitsAtomic on drawn inputs             *)
(*   SpecOwn    one call of checkOwnership / enforceOwnershipOrThrow       *)
(*   Spec       one run of BAiSEDFactory.execute                           *)
(***************************************************************************)
EXTENDS Integers, Sequences, FiniteSets, TLC

VARIABLES
    (* --- the shared repository (git) ----------------------------------- *)
    target,        \* commits on the target branch since the base revision, oldest first
    repoDirty,     \* the main working tree holds an unfinished cherry-pick
    (* --- one call of mergeCommitsAtomic --------------------------------- *)
    commits,       \* argument: the accepted commit list
    mergeOrder,    \* argument: explicit order, or NoOrder
    preTarget,     \* target as it was when the call began
    mergeResult,   \* the returned { success, finalCommit?, error? }, or NoResult
    mergeCalls,    \* how many times mergeCommitsAtomic was invoked
    (* --- one call of checkOwnership ------------------------------------- *)
    plan,          \* argument: PlannedChange[]
    config,        \* argument: OwnershipConfig
    ownCall,       \* which entry point was called: "none", "checkOwnership", ...
    ownResult,     \* the value it returned, or NoResult
    ownThrew       \* whether it threw

(* One run of BAiSEDFactory.execute *)
VARIABLES
    initialized,   \* BAiSEDFactory.initialized
    pc,            \* where the run stands: "idle", "ready", "plan", "research",
                   \* "implement", "done", or "threw" (execute rejected)
    parallel,      \* options.parallel
    agents,        \* options.agents, or None
    planned,       \* per department agent, the files its task changes
    preflight,     \* the result of Phase 0, or None
    registry,      \* WorktreeManager.worktrees: the names registered
    spawnCalls,    \* calls of WorktreeManager.spawn so far
    tasks,         \* per department agent, its runAgentWithCommit call
    worktrees,     \* execute's local list of workspace names
    manifests,     \* execute's local list of manifests
    reviewResult,  \* what pm.review returned, or None
    execResult,    \* what execute returned, or None
    phases,        \* the phases entered so far
    preserveWorktrees  \* process.env.BAISED_PRESERVE_WORKTREES === 'true'

mergeVars == <<target, repoDirty, commits, mergeOrder, preTarget, mergeResult, mergeCalls>>
ownVars   == <<plan, config, ownCall, ownResult, ownThrew>>
execVars  == <<initialized, pc, parallel, agents, planned, preflight, registry, spawnCalls, tasks,
               worktrees, manifests, reviewResult, execResult, phases, preserveWorktrees>>

(* One workspace under the commit contract *)
VARIABLES
    workspace,     \* the worktree: HEAD, uncommitted files, whether git works
    contractLog    \* the calls made on it so far, each with what it returned

contractVars == <<workspace, contractLog>>

(* One ProjectManager and the manifests handed to it *)
VARIABLES
    strictMode,    \* ProjectManager.strictMode
    pmManifests,   \* the manifests at hand
    pmCall,        \* the last call made: "none", "review", "detectConflicts", ...
    pmResult       \* what it returned, or NoResult

reviewVars == <<strictMode, pmManifests, pmCall, pmResult>>

(* One WorktreeManager and the repository it runs git in *)
VARIABLES
    wtRegistry,    \* WorktreeManager.worktrees: branch name -> the baseRef recorded
    gitBranch,     \* per name, the ref the branch of that name was created from, or None
    gitDir,        \* per name, the directory baseDir/name: what it holds, or None
    wtCreated,     \* the names whose directory a spawn of this manager made
    wtCalls        \* the steps taken so far, each with the state before it

worktreeVars == <<wtRegistry, gitBranch, gitDir, wtCreated, wtCalls>>

(* One call of runPreflight *)
VARIABLES
    pfTree,        \* what is at repoPath: the facts the checks look for
    pfAllowDirty,  \* opts.allowDirty
    pfResult       \* the PreflightResult returned, or NoResult

preflightVars == <<pfTree, pfAllowDirty, pfResult>>

(* One Router and the route calls made on it *)
VARIABLES
    routerTasks,   \* Router.tasks: task id -> the TaskStatus tracked, or None
    routeCalls,    \* the calls of route so far: the task and where the call stands
    notified       \* the calls whose failure was sent to notifyHuman, in order

routerVars == <<routerTasks, routeCalls, notified>>

(* The variables of the units specified on their own. *)
unitVars  == <<contractVars, reviewVars, worktreeVars, preflightVars, routerVars>>
vars      == <<mergeVars, ownVars, execVars, unitVars>>

(* An optional value (undefined in the source) is a sequence of length 0 or 1. *)
None    == <<>>
Some(x) == <<x>>

NoResult == None
NoOrder  == None     \* mergeOrder not supplied
NoCommit == None     \* finalCommit absent

(***************************************************************************)
(* Bounds                                                                  *)
(***************************************************************************)
MaxCommits == 3     \* longest accepted commit list drawn
MaxOrder   == 2     \* longest explicit mergeOrder drawn

(* Sequences over S of length at most n. *)
SeqUpTo(S, n) == UNION {[1..k -> S] : k \in 0..n}

Range(s) == {s[i] : i \in DOMAIN s}

(***************************************************************************)
(* Git, as far as the merge depends on it.  A commit hash stands for the   *)
(* commit it names: the set of files the commit changes relative to the    *)
(* base revision (each commit writes its own content).  The head revision  *)
(* of a branch is identified by the history that leads to it.              *)
(***************************************************************************)
Commit(id, files) == [id |-> id, files |-> files]

BaseCommit == Commit("base", {})

(* The content of every file at the head of a history: the id of the last   *)
(* commit that changed it, or "base".                                       *)
RECURSIVE Tree(_)
Tree(log) ==
    IF log = <<>> THEN [f \in {} |-> "base"]
    ELSE LET rest == Tree(SubSeq(log, 1, Len(log) - 1))
             c    == log[Len(log)]
         IN  [f \in (DOMAIN rest) \cup c.files |->
                 IF f \in c.files THEN c.id ELSE rest[f]]

Content(log, f) == IF f \in DOMAIN Tree(log) THEN Tree(log)[f] ELSE "base"

(* git cherry-pick <hash> --no-commit, then git commit: a three-way merge   *)
(* of the commit's change onto HEAD.  "conflict" when a file it changes was *)
(* changed differently on HEAD; "empty" when nothing is left to commit      *)
(* (git commit exits non-zero); "ok" otherwise.                             *)
CherryPick(log, c) ==
    IF \E f \in c.files : Content(log, f) \notin {"base", c.id} THEN "conflict"
    ELSE IF \A f \in c.files : Content(log, f) = c.id THEN "empty"
    ELSE "ok"

(***************************************************************************)
(* mergeCommitsAtomic                                                      *)
(***************************************************************************)
defaultPriority(agent) ==
    CASE agent \in {"Backend", "API", "Database"}       -> 1
      [] agent \in {"Frontend", "UI", "UX", "Mobile"}   -> 2
      [] agent \in {"QA", "Test", "E2E"}                -> 3
      [] agent \in {"Docs", "Documentation"}            -> 4
      [] OTHER                                          -> 2

(* commits.find(c => c.agent === agent): the first match, or none. *)
Find(cs, agent) ==
    LET hits == {i \in DOMAIN cs : cs[i].agent = agent}
    IN  IF hits = {} THEN <<>>
        ELSE <<cs[CHOOSE i \in hits : \A j \in hits : i <= j]>>

(* mergeOrder.map(agent => commits.find(...)).filter(Boolean) *)
RECURSIVE OrderByMergeOrder(_, _)
OrderByMergeOrder(cs, order) ==
    IF order = <<>> THEN <<>>
    ELSE Find(cs, Head(order)) \o OrderByMergeOrder(cs, Tail(order))

(* As InsertByPriority, putting a commit before those of equal priority. *)
RECURSIVE InsertBeforeEqual(_, _)
InsertBeforeEqual(sorted, c) ==
    IF sorted = <<>> THEN <<c>>
    ELSE LET last == sorted[Len(sorted)]
         IN  IF defaultPriority(last.agent) < defaultPriority(c.agent)
             THEN Append(sorted, c)
             ELSE Append(InsertBeforeEqual(SubSeq(sorted, 1, Len(sorted) - 1), c), last)

(* [...commits].sort((a, b) => pa - pb): a stable sort by priority. *)
RECURSIVE InsertByPriority(_, _)
InsertByPriority(sorted, c) ==
    IF sorted = <<>> THEN <<c>>
    ELSE LET last == sorted[Len(sorted)]
         IN  IF defaultPriority(last.agent) <= defaultPriority(c.agent)
             THEN Append(sorted, c)
             ELSE Append(InsertByPriority(SubSeq(sorted, 1, Len(sorted) - 1), c), last)

RECURSIVE SortByPriority(_)
SortByPriority(cs) ==
    IF cs = <<>> THEN <<>>
    ELSE InsertByPriority(SortByPriority(SubSeq(cs, 1, Len(cs) - 1)), cs[Len(cs)])

Ordered(cs, order) ==
    IF order # NoOrder THEN OrderByMergeOrder(cs, order[1]) ELSE SortByPriority(cs)

(* The loop over ordered: each commit is cherry-picked and committed on     *)
(* target; the first one that fails returns at once.  Yields the history of *)
(* target when the loop ends and the position that failed (0: none).        *)
RECURSIVE MergeLoop(_, _, _)
MergeLoop(ordered, i, log) ==
    IF i > Len(ordered) THEN [log |-> log, failedAt |-> 0, why |-> "none"]
    ELSE LET c == ordered[i].commitHash
             r == CherryPick(log, c)
         IN  IF r = "ok" THEN MergeLoop(ordered, i + 1, Append(log, c))
             ELSE [log |-> log, failedAt |-> i, why |-> r]

(* The history of target after a failure inside the loop: the inner catch   *)
(* runs git cherry-pick --abort and returns.                                *)
AfterFailedPick(loop) == loop.log

(* One call.  checkoutOk: whether git checkout <target> succeeded; leftover: *)
(* whether the failed cherry-pick is still in the working tree after the    *)
(* abort (with --no-commit git records no cherry-pick to abort).            *)
MergeOutcome(log, cs, order, checkoutOk, leftover) ==
    LET loop == MergeLoop(Ordered(cs, order), 1, log)
    IN  IF ~checkoutOk
        THEN [target |-> log, dirty |-> FALSE,
              result |-> [success |-> FALSE, finalCommit |-> NoCommit, failedAt |-> 0]]
        ELSE IF loop.failedAt # 0
        THEN [target |-> AfterFailedPick(loop),
              dirty  |-> leftover /\ loop.why = "conflict",
              result |-> [success |-> FALSE, finalCommit |-> NoCommit,
                          failedAt |-> loop.failedAt]]
        ELSE [target |-> loop.log, dirty |-> FALSE,
              result |-> [success |-> TRUE, finalCommit |-> Some(loop.log), failedAt |-> 0]]

mergeCommitsAtomic ==
    /\ mergeResult = NoResult
    /\ \E checkoutOk \in BOOLEAN, leftover \in BOOLEAN :
          LET out == MergeOutcome(target, commits, mergeOrder, checkoutOk, leftover)
          IN  /\ target' = out.target
              /\ repoDirty' = out.dirty
              /\ mergeResult' = Some(out.result)
    /\ preTarget' = target
    /\ mergeCalls' = mergeCalls + 1
    /\ UNCHANGED <<commits, mergeOrder, ownVars, unitVars, execVars>>

(***************************************************************************)
(* Ownership map                                                           *)
(***************************************************************************)
MaxClaims == 3      \* most (agent, file) claims in a drawn plan

Char(s, i) == SubSeq(s, i, i)

(* String.prototype.includes *)
Includes(s, sub) ==
    \E i \in 1..(Len(s) - Len(sub) + 1) : SubSeq(s, i, i + Len(sub) - 1) = sub

(* The regular expression matchesGlob builds, run from position i of file   *)
(* and position j of pattern: "**" became ".*", a remaining "*" became       *)
(* "[^/]*", and every other character is regular-expression source as it    *)
(* stands, so "." matches any one character.  The expression is anchored at *)
(* the start only: the pattern has to match a prefix of file.               *)
RECURSIVE MatchFrom(_, _, _, _)
MatchFrom(file, i, pattern, j) ==
    IF j > Len(pattern) THEN TRUE
    ELSE IF j < Len(pattern) /\ SubSeq(pattern, j, j + 1) = "**"
    THEN \E k \in i..(Len(file) + 1) : MatchFrom(file, k, pattern, j + 2)
    ELSE IF Char(pattern, j) = "*"
    THEN \E k \in i..(Len(file) + 1) :
            /\ \A m \in i..(k - 1) : Char(file, m) # "/"
            /\ MatchFrom(file, k, pattern, j + 1)
    ELSE IF Char(pattern, j) = "."
    THEN i <= Len(file) /\ MatchFrom(file, i + 1, pattern, j + 1)
    ELSE /\ i <= Len(file)
         /\ Char(file, i) = Char(pattern, j)
         /\ MatchFrom(file, i + 1, pattern, j + 1)

(* The paths and patterns the specifications draw; the matcher's verdicts on  *)
(* them are computed once.                                                  *)
KnownPaths ==
    { "apps/web/login.tsx", "apps/api/auth.ts", "shared/types.ts", "pnpm-lock.yaml",
      "docs/package-lock.json", "dist/app.js" }

KnownPatterns ==
    { "dist/", "build/", ".next/", "out/", "coverage/", "node_modules/",
      "docs/", "README.md", "CHANGELOG.md", "CONTRIBUTING.md",
      "shared/", "package.json", "pnpm-lock.yaml", "yarn.lock", "package-lock.json",
      "tsconfig.json", "tsconfig.base.json", ".eslintrc", ".prettierrc", "turbo.json",
      "nx.json", "apps/", "apps/web/", "apps/mobile/", "packages/ui/", "apps/api/",
      "apps/server/", "packages/core/", "db/", "prisma/", "tests/", "e2e/",
      "playwright/", "cypress/", "terraform/", "docker/", "k8s/", ".github/" }

GlobVerdicts == [f \in KnownPaths |-> {p \in KnownPatterns : MatchFrom(f, 1, p, 1)}]

matchesGlob(file, pattern) ==
    IF file \in KnownPaths /\ pattern \in KnownPatterns
    THEN pattern \in GlobVerdicts[file]
    ELSE MatchFrom(file, 1, pattern, 1)

matchesAny(file, patterns) ==
    \E k \in DOMAIN patterns : matchesGlob(file, patterns[k])

(* config.owners is an object: its entries in insertion order. *)
Owner(agent, patterns) == [agent |-> agent, patterns |-> patterns]

DEFAULT_OWNERSHIP ==
    [ strict           |-> TRUE,
      generatedPaths   |-> <<"dist/", "build/", ".next/", "out/", "coverage/",
                             "node_modules/">>,
      allowSharedPaths |-> <<"docs/", "README.md", "CHANGELOG.md">>,
      restrictedPaths  |-> <<"shared/", "package.json", "pnpm-lock.yaml", "yarn.lock",
                             "package-lock.json", "tsconfig.json", "tsconfig.base.json",
                             ".eslintrc", ".prettierrc", "turbo.json", "nx.json">>,
      owners           |-> << Owner("Frontend", <<"apps/web/", "apps/mobile/", "packages/ui/">>),
                              Owner("Backend", <<"apps/api/", "apps/server/",
                                                 "packages/core/", "db/", "prisma/">>),
                              Owner("QA", <<"tests/", "e2e/", "playwright/", "cypress/">>),
                              Owner("Docs", <<"docs/", "README.md", "CONTRIBUTING.md">>),
                              Owner("Infra", <<"terraform/", "docker/", "k8s/", ".github/">>) >>,
      lockfileOwner    |-> Some("Backend") ]

(* getOwners: the agents whose patterns match file, in the order of owners. *)
RECURSIVE OwnersFrom(_, _, _)
OwnersFrom(file, owners, k) ==
    IF k > Len(owners) THEN <<>>
    ELSE (IF matchesAny(file, owners[k].patterns) THEN <<owners[k].agent>> ELSE <<>>)
         \o OwnersFrom(file, owners, k + 1)

(* As getOwners, stopping at the first owners entry that matches. *)
getOwnersFirstMatch(file, cfg) ==
    LET all == OwnersFrom(file, cfg.owners, 1)
    IN  IF all = <<>> THEN <<>> ELSE <<all[1]>>

getOwners(file, cfg) == OwnersFrom(file, cfg.owners, 1)

(* The plan as the nested loops visit it: one (agent, file) pair per step. *)
RECURSIVE FilesOf(_, _, _)
FilesOf(agent, files, k) ==
    IF k > Len(files) THEN <<>>
    ELSE <<[agent |-> agent, file |-> files[k]]>> \o FilesOf(agent, files, k + 1)

RECURSIVE Visits(_, _)
Visits(pl, k) ==
    IF k > Len(pl) THEN <<>>
    ELSE FilesOf(pl[k].agent, pl[k].files, 1) \o Visits(pl, k + 1)

(* As AddTouched, with an array in place of the Set: every listing counts. *)
AddTouchedEveryListing(touched, agent, file) ==
    IF \E k \in DOMAIN touched : touched[k].file = file
    THEN [k \in DOMAIN touched |->
             IF touched[k].file = file
             THEN [touched[k] EXCEPT !.agents = Append(@, agent)]
             ELSE touched[k]]
    ELSE Append(touched, [file |-> file, agents |-> <<agent>>])

(* touched.get(file) ?? new Set(); set.add(agent); touched.set(file, set):  *)
(* a Map and its Sets keep insertion order.                                 *)
AddTouched(touched, agent, file) ==
    IF \E k \in DOMAIN touched : touched[k].file = file
    THEN [k \in DOMAIN touched |->
             IF touched[k].file = file /\ agent \notin Range(touched[k].agents)
             THEN [touched[k] EXCEPT !.agents = Append(@, agent)]
             ELSE touched[k]]
    ELSE Append(touched, [file |-> file, agents |-> <<agent>>])

RECURSIVE BuildTouched(_, _, _, _)
BuildTouched(visits, k, cfg, touched) ==
    IF k > Len(visits) THEN touched
    ELSE LET next == IF matchesAny(visits[k].file, cfg.generatedPaths) THEN touched
                     ELSE AddTouched(touched, visits[k].agent, visits[k].file)
         IN  CHOOSE r \in {BuildTouched(visits, k + 1, cfg, t) : t \in {next}} : TRUE

(* As Touched, without the "continue" on generated paths. *)
TouchedWithGenerated(pl, cfg) ==
    BuildTouched(Visits(pl, 1), 1, [cfg EXCEPT !.generatedPaths = <<>>], <<>>)

Touched(pl, cfg) == BuildTouched(Visits(pl, 1), 1, cfg, <<>>)

LockfileName(file) ==
    Includes(file, "lock") \/ Includes(file, "pnpm") \/ Includes(file, "yarn")

KnownLockfiles == {f \in KnownPaths : LockfileName(f)}

isLockfile(file) ==
    IF file \in KnownPaths THEN file \in KnownLockfiles ELSE LockfileName(file)

(* A message of the result, by what it says. *)
Finding(kind, file, agent, expected) ==
    [kind |-> kind, file |-> file, agent |-> agent, expected |-> expected]

(* As IfStrict, promoting under every configuration. *)
IfStrictAlways(cfg, findings) == findings

IfStrict(cfg, findings) == IF cfg.strict THEN findings ELSE <<>>

(* As SkipShared, for shared paths that are not restricted only. *)
SkipSharedUnrestricted(file, cfg) ==
    matchesAny(file, cfg.allowSharedPaths) /\ ~matchesAny(file, cfg.restrictedPaths)

(* Whether the loop body skips the file altogether. *)
SkipShared(file, cfg) == matchesAny(file, cfg.allowSharedPaths)

(* "<file> touched by multiple agents: <agentList>" and its error. *)
ConflictCheck(t, cfg) ==
    IF Len(t.agents) > 1
    THEN [conflicts  |-> <<Finding("CONFLICT", t.file, "", t.agents)>>,
          violations |-> <<>>,
          errors     |-> IfStrict(cfg, <<Finding("CONFLICT", t.file, "", <<>>)>>)]
    ELSE [conflicts |-> <<>>, violations |-> <<>>, errors |-> <<>>]

(* As RestrictedCheck, for a file that a single agent claims only. *)
RestrictedCheckSoleClaimant(t, cfg) ==
    IF matchesAny(t.file, cfg.restrictedPaths) /\ Len(t.agents) = 1
    THEN [conflicts  |-> <<>>,
          violations |-> <<Finding("RESTRICTED", t.file, t.agents[1], <<>>)>>,
          errors     |-> IfStrict(cfg, <<Finding("RESTRICTED", t.file, "", <<>>)>>)]
    ELSE [conflicts |-> <<>>, violations |-> <<>>, errors |-> <<>>]

(* "<file> is RESTRICTED - <agent> cannot modify directly (PM-only)" *)
RestrictedCheck(t, cfg) ==
    IF matchesAny(t.file, cfg.restrictedPaths)
    THEN [conflicts  |-> <<>>,
          violations |-> <<Finding("RESTRICTED", t.file, t.agents[1], <<>>)>>,
          errors     |-> IfStrict(cfg, <<Finding("RESTRICTED", t.file, "", <<>>)>>)]
    ELSE [conflicts |-> <<>>, violations |-> <<>>, errors |-> <<>>]

(* As OwnershipCheck, without the test that the file has owners at all. *)
OwnershipCheckUnowned(t, cfg) ==
    LET fileOwners == getOwners(t.file, cfg)
        NotOwner(a) == a \notin Range(fileOwners)
        who == SelectSeq(t.agents, NotOwner)
        msgs == [k \in DOMAIN who |-> Finding("OWNERSHIP", t.file, who[k], fileOwners)]
    IN  [conflicts |-> <<>>, violations |-> msgs, errors |-> IfStrict(cfg, msgs)]

(* "<file> owned by <expected> but touched by <agent>", once per claimant   *)
(* that is not among the owners, when the file has owners.                  *)
OwnershipCheck(t, cfg) ==
    LET fileOwners == getOwners(t.file, cfg)
        NotOwner(a) == Len(fileOwners) > 0 /\ a \notin Range(fileOwners)
        who == SelectSeq(t.agents, NotOwner)
        msgs == [k \in DOMAIN who |-> Finding("OWNERSHIP", t.file, who[k], fileOwners)]
    IN  [conflicts |-> <<>>, violations |-> msgs, errors |-> IfStrict(cfg, msgs)]

(* As LockfileCheck, never promoting the violation to an error. *)
LockfileCheckAdvisory(t, cfg) ==
    IF cfg.lockfileOwner # None /\ isLockfile(t.file)
    THEN LET Other(a) == a # cfg.lockfileOwner[1]
             who == SelectSeq(t.agents, Other)
         IN  [conflicts  |-> <<>>,
              violations |-> [k \in DOMAIN who |->
                                 Finding("LOCKFILE", t.file, "", cfg.lockfileOwner)],
              errors     |-> <<>>]
    ELSE [conflicts |-> <<>>, violations |-> <<>>, errors |-> <<>>]

(* "<file> is lockfile, only <lockfileOwner> should modify", once per       *)
(* claimant other than lockfileOwner; the error names the claimant.         *)
LockfileCheck(t, cfg) ==
    IF cfg.lockfileOwner # None /\ isLockfile(t.file)
    THEN LET Other(a) == a # cfg.lockfileOwner[1]
             who == SelectSeq(t.agents, Other)
         IN  [conflicts  |-> <<>>,
              violations |-> [k \in DOMAIN who |->
                                 Finding("LOCKFILE", t.file, "", cfg.lockfileOwner)],
              errors     |-> IfStrict(cfg, [k \in DOMAIN who |->
                                 Finding("LOCKFILE", t.file, who[k], cfg.lockfileOwner)])]
    ELSE [conflicts |-> <<>>, violations |-> <<>>, errors |-> <<>>]

NoFindings == [conflicts |-> <<>>, violations |-> <<>>, errors |-> <<>>]

(* The body of "for (const [file, agents] of touched.entries())". *)
CheckFile(t, cfg) ==
    IF SkipShared(t.file, cfg) THEN NoFindings
    ELSE [conflicts  |-> ConflictCheck(t, cfg).conflicts,
          violations |-> RestrictedCheck(t, cfg).violations
                         \o OwnershipCheck(t, cfg).violations
                         \o LockfileCheck(t, cfg).violations,
          errors     |-> ConflictCheck(t, cfg).errors
                         \o RestrictedCheck(t, cfg).errors
                         \o OwnershipCheck(t, cfg).errors
                         \o LockfileCheck(t, cfg).errors]

(* The lists of a sequence of per-file findings, one after the other. *)
RECURSIVE Concat(_, _)
Concat(seqs, k) ==
    IF k > Len(seqs) THEN <<>> ELSE seqs[k] \o Concat(seqs, k + 1)

(* The result from the findings of each touched file, in the order of touched. *)
ResultOf(perFile) ==
    LET errors == Concat([k \in DOMAIN perFile |-> perFile[k].errors], 1)
    IN  [ ok         |-> Len(errors) = 0,
          errors     |-> errors,
          warnings   |-> <<>>,
          conflicts  |-> Concat([k \in DOMAIN perFile |-> perFile[k].conflicts], 1),
          violations |-> Concat([k \in DOMAIN perFile |-> perFile[k].violations], 1) ]

checkOwnership(pl, cfg) ==
    CHOOSE r \in { ResultOf([k \in DOMAIN touched |-> CheckFile(touched[k], cfg)]) :
                      touched \in {Touched(pl, cfg)} } : TRUE

(* As IsSafe, looking at the errors only. *)
IsSafeNoErrors(res) == res.errors = <<>>

(* validateParallelPlan: safe when the result has no conflicts, no         *)
(* violations and no errors.                                                *)
IsSafe(res) == res.conflicts = <<>> /\ res.violations = <<>> /\ res.errors = <<>>

validateParallelPlan(pl, cfg) ==
    LET res == checkOwnership(pl, cfg)
    IN  [safe |-> IsSafe(res), result |-> res]

(* As ThrowsOn, throwing on any finding, promoted to an error or not. *)
ThrowsOnAnyFinding(res) == ~res.ok \/ res.conflicts # <<>> \/ res.violations # <<>>

(* enforceOwnershipOrThrow: throws when res.ok is false, else returns res. *)
ThrowsOn(res) == ~res.ok

enforceOwnershipOrThrow(pl, cfg) ==
    LET res == checkOwnership(pl, cfg)
    IN  IF ThrowsOn(res) THEN [threw |-> TRUE, value |-> NoResult]
        ELSE [threw |-> FALSE, value |-> Some(res)]

(***************************************************************************)
(* Preflight gate                                                          *)
(***************************************************************************)
(* env: what the checks find in the tree.  status is the outcome of         *)
(* git status --porcelain: "clean", "dirty", or "unreadable" (it threw).    *)
runPreflight(env, allowDirty) ==
    LET notRepo   == IF ~env.isRepo THEN <<"not a git repo">> ELSE <<>>
        noBase    == IF ~env.baseExists THEN <<"baseRef does not exist">> ELSE <<>>
        dirtySeen == ~allowDirty /\ env.status = "dirty"
        dirty     == IF dirtySeen THEN <<"working tree is dirty", "Dirty files">> ELSE <<>>
        noWrite   == IF ~env.writable THEN <<"repo path is not writable">> ELSE <<>>
        errors    == notRepo \o noBase \o dirty \o noWrite
    IN  [ok       |-> errors = <<>>,
         errors   |-> errors,
         warnings |-> IF ~allowDirty /\ env.status = "unreadable"
                      THEN <<"Could not check git status">> ELSE <<>>,
         isClean  |-> ~dirtySeen]

(***************************************************************************)
(* Commit contract of one workspace                                        *)
(***************************************************************************)
(* A workspace: the commit at its HEAD (BaseCommit until the agent commits),*)
(* the files with uncommitted changes, and whether git works in it.         *)
Workspace(head, dirty, usable) == [head |-> head, dirty |-> dirty, usable |-> usable]

verifyCommitContract(ws) ==
    IF ~ws.usable THEN [valid |-> FALSE, headCommit |-> NoCommit]
    ELSE LET valid == ws.dirty = {} /\ ws.head # BaseCommit
         IN  [valid |-> valid, headCommit |-> IF valid THEN Some(ws.head) ELSE NoCommit]

(* The commit git commit creates from the uncommitted files: a new revision *)
(* on top of HEAD.                                                          *)
AutoCommit(ws, agent) == Commit(ws.head.id \o "+" \o agent, ws.dirty)

(* As enforceCommit, reading HEAD before it commits. *)
enforceCommitStaleHead(ws, agent, commitOk) ==
    IF ~ws.usable THEN [success |-> FALSE, commitHash |-> NoCommit]
    ELSE IF ws.dirty = {} \/ commitOk THEN [success |-> TRUE, commitHash |-> Some(ws.head)]
    ELSE [success |-> FALSE, commitHash |-> NoCommit]

(* commitOk: whether git add / git commit succeed on the dirty tree. *)
enforceCommit(ws, agent, commitOk) ==
    IF ~ws.usable THEN [success |-> FALSE, commitHash |-> NoCommit]
    ELSE IF ws.dirty = {} THEN [success |-> TRUE, commitHash |-> Some(ws.head)]
    ELSE IF commitOk THEN [success |-> TRUE, commitHash |-> Some(AutoCommit(ws, agent))]
    ELSE [success |-> FALSE, commitHash |-> NoCommit]

(* The workspace enforceCommit leaves: git add -A and git commit move HEAD  *)
(* to the new commit and leave nothing uncommitted.                         *)
AfterEnforce(ws, agent, commitOk) ==
    IF ws.usable /\ ws.dirty # {} /\ commitOk
    THEN Workspace(AutoCommit(ws, agent), {}, TRUE)
    ELSE ws

(* The calls on one workspace, one after the other. *)
MaxContractCalls == 3     \* most calls made on the workspace

ContractFiles == {"apps/api/auth.ts", "apps/web/login.tsx"}

ContractAgents == {"Backend", "Frontend"}

ContractCall(call, before, result) == [call |-> call, before |-> before, result |-> result]

ContractIdle ==
    /\ workspace = Workspace(BaseCommit, {}, TRUE)
    /\ contractLog = <<>>

CallVerifyCommitContract ==
    /\ Len(contractLog) < MaxContractCalls
    /\ contractLog' = Append(contractLog,
                             ContractCall("verify", workspace, verifyCommitContract(workspace)))
    /\ UNCHANGED <<workspace, mergeVars, ownVars, execVars, reviewVars, worktreeVars,
                   preflightVars, routerVars>>

CallEnforceCommit ==
    /\ Len(contractLog) < MaxContractCalls
    /\ \E agent \in ContractAgents, commitOk \in BOOLEAN :
          /\ contractLog' = Append(contractLog,
                                   ContractCall("enforce", workspace,
                                                enforceCommit(workspace, agent, commitOk)))
          /\ workspace' = AfterEnforce(workspace, agent, commitOk)
    /\ UNCHANGED <<mergeVars, ownVars, execVars, reviewVars, worktreeVars,
                   preflightVars, routerVars>>

(* The agent (or anyone) writes to a file of the worktree. *)
WorkspaceEdited ==
    /\ Len(contractLog) < MaxContractCalls
    /\ \E f \in ContractFiles :
          /\ workspace' = [workspace EXCEPT !.dirty = @ \cup {f}]
          /\ contractLog' = Append(contractLog, ContractCall("edit", workspace, [file |-> f]))
    /\ UNCHANGED <<mergeVars, ownVars, execVars, reviewVars, worktreeVars,
                   preflightVars, routerVars>>

(***************************************************************************)
(* Artifact manifests and the review                                       *)
(***************************************************************************)
(* The string 'UNKNOWN' in place of a commit hash: it names no revision. *)
UnknownCommit == Commit("UNKNOWN", {})

(* options: Partial<ArtifactManifest>, each field an optional value. *)
ManifestOptions(headCommit, noOp, testStatus, riskFlags) ==
    [headCommit |-> headCommit, noOp |-> noOp, testStatus |-> testStatus,
     riskFlags |-> riskFlags]

(* As createManifest, without the defaults for what the options leave out. *)
createManifestNoDefaults(agent, worktree, summary, filesChanged, options) ==
    [agent        |-> agent,
     worktree     |-> worktree,
     headCommit   |-> options.headCommit,
     noOp         |-> options.noOp = Some(TRUE),
     summary      |-> summary,
     filesChanged |-> filesChanged,
     testStatus   |-> IF options.testStatus # None THEN options.testStatus[1] ELSE "undefined",
     riskFlags    |-> IF options.riskFlags # None THEN options.riskFlags[1] ELSE <<>>]

createManifest(agent, worktree, summary, filesChanged, options) ==
    [agent        |-> agent,
     worktree     |-> worktree,
     headCommit   |-> IF options.headCommit # None THEN options.headCommit
                      ELSE Some(UnknownCommit),
     noOp         |-> options.noOp = Some(TRUE)
                      \/ (filesChanged = <<>> /\ options.headCommit = None),
     summary      |-> summary,
     filesChanged |-> filesChanged,
     testStatus   |-> IF options.testStatus # None THEN options.testStatus[1] ELSE "skipped",
     riskFlags    |-> IF options.riskFlags # None THEN options.riskFlags[1] ELSE <<>>]

validRiskFlags ==
    {"touches-auth", "db-migration", "breaking-change", "security-sensitive",
     "performance-critical"}

(* A filesChanged that is not an array (undefined, a string, an object).     *)
(* The values of one field have to be comparable, so it is a reserved value  *)
(* that no drawn file list equals.                                          *)
NotAnArray == <<"undefined">>

isArray(value) == value # NotAnArray

MissingField(field, absent) ==
    IF absent THEN <<"Missing required field: " \o field>> ELSE <<>>

(* As ManifestErrors, without the headCommit requirement. *)
ManifestErrorsCommitOptional(m) ==
    MissingField("agent", m.agent = "") \o MissingField("worktree", m.worktree = "")
    \o MissingField("summary", m.summary = "")
    \o (IF ~isArray(m.filesChanged) THEN <<"filesChanged must be an array">> ELSE <<>>)
    \o (IF m.testStatus \notin {"pass", "fail", "skipped"}
        THEN <<"testStatus must be one of">> ELSE <<>>)
    \o (IF "db-migration" \in Range(m.riskFlags) /\ m.testStatus = "fail"
        THEN <<"BLOCKING: Database migration with failing tests">> ELSE <<>>)

(* The errors of validateManifest, in the order they are pushed. *)
ManifestErrors(m) ==
    MissingField("agent", m.agent = "") \o MissingField("worktree", m.worktree = "")
    \o MissingField("summary", m.summary = "")
    \o MissingField("headCommit", m.headCommit = NoCommit)
    \o (IF ~isArray(m.filesChanged) THEN <<"filesChanged must be an array">> ELSE <<>>)
    \o (IF m.testStatus \notin {"pass", "fail", "skipped"}
        THEN <<"testStatus must be one of">> ELSE <<>>)
    \o (IF "db-migration" \in Range(m.riskFlags) /\ m.testStatus = "fail"
        THEN <<"BLOCKING: Database migration with failing tests">> ELSE <<>>)

(* The warnings of validateManifest: unknown flags, then the risky pair. *)
ManifestWarnings(m) ==
    LET unknown == SelectSeq(m.riskFlags, LAMBDA f : f \notin validRiskFlags)
    IN  [k \in DOMAIN unknown |-> "Unknown risk flag"]
        \o (IF {"touches-auth", "breaking-change"} \subseteq Range(m.riskFlags)
            THEN <<"CRITICAL: Authentication + breaking change">> ELSE <<>>)

validateManifest(m) ==
    [valid    |-> ManifestErrors(m) = <<>>,
     errors   |-> ManifestErrors(m),
     warnings |-> ManifestWarnings(m)]

(* The (agent, file) pairs of the manifests not marked noOp, in loop order. *)
RECURSIVE ManifestVisits(_, _)
ManifestVisits(ms, k) ==
    IF k > Len(ms) THEN <<>>
    ELSE (IF ms[k].noOp THEN <<>>
          ELSE [i \in DOMAIN ms[k].filesChanged |->
                   [agent |-> ms[k].agent, file |-> ms[k].filesChanged[i]]])
         \o ManifestVisits(ms, k + 1)

(* fileToManifest keeps the first agent seen for a file; every later        *)
(* listing of the file is reported against it.                              *)
RECURSIVE ConflictsFrom(_, _, _)
ConflictsFrom(visits, k, seen) ==
    IF k > Len(visits) THEN <<>>
    ELSE LET v == visits[k]
             first == {j \in DOMAIN seen : seen[j].file = v.file}
         IN  IF first # {}
             THEN <<[file |-> v.file, agent |-> v.agent,
                     other |-> seen[CHOOSE j \in first : TRUE].agent]>>
                  \o ConflictsFrom(visits, k + 1, seen)
             ELSE ConflictsFrom(visits, k + 1, Append(seen, v))

detectConflicts(ms) == ConflictsFrom(ManifestVisits(ms, 1), 1, <<>>)

(* String.prototype.startsWith *)
StartsWith(s, prefix) == Len(s) >= Len(prefix) /\ SubSeq(s, 1, Len(prefix)) = prefix

(* The message detectConflicts pushes for a conflict. *)
ConflictMessage(c) ==
    "CONFLICT: " \o c.file \o " touched by both " \o c.agent \o " and " \o c.other

(* errors.push(...validation.errors.map(e => `${manifest.agent}: ${e}`)) *)
RECURSIVE ValidationErrors(_, _)
ValidationErrors(ms, k) ==
    IF k > Len(ms) THEN <<>>
    ELSE LET v == validateManifest(ms[k])
         IN  [i \in DOMAIN v.errors |-> ms[k].agent \o ": " \o v.errors[i]]
             \o ValidationErrors(ms, k + 1)

riskLevel(flags) ==
    IF "breaking-change" \in flags THEN "critical"
    ELSE IF "db-migration" \in flags THEN "high"
    ELSE IF "touches-auth" \in flags \/ "security" \in flags THEN "high"
    ELSE IF flags # {} THEN "medium"
    ELSE "low"

(* The concern the risk assessment adds, by the same precedence. *)
riskConcerns(flags) ==
    IF "breaking-change" \in flags THEN <<"Breaking changes require major version bump">>
    ELSE IF "db-migration" \in flags THEN <<"Database migrations require rollback testing">>
    ELSE IF "touches-auth" \in flags \/ "security" \in flags
         THEN <<"Security-related changes require audit">>
    ELSE <<>>

(* approved: with strictMode no error at all; without it, no error that   *)
(* does not start with 'CONFLICT:'.                                       *)
Approves(strict, errors, conflicts) ==
    IF strict THEN errors = <<>>
    ELSE SelectSeq(errors, LAMBDA e : ~StartsWith(e, "CONFLICT:")) = <<>>

(* ProjectManager.review; strict is the manager's strictMode field. *)
review(ms, strict) ==
    LET conflicts == detectConflicts(ms)
        failed    == SelectSeq(ms, LAMBDA m : m.testStatus = "fail")
        errors    == ValidationErrors(ms, 1)
                     \o [i \in DOMAIN conflicts |-> ConflictMessage(conflicts[i])]
                     \o [i \in DOMAIN failed |-> failed[i].agent \o ": Tests failed"]
        flags     == UNION {Range(ms[k].riskFlags) : k \in DOMAIN ms}
    IN  [approved  |-> Approves(strict, errors, conflicts),
         conflicts |-> conflicts,
         errors    |-> errors,
         concerns  |-> (IF conflicts # <<>> THEN <<"file conflicts detected">> ELSE <<>>)
                       \o (IF failed # <<>>
                           THEN <<"Test failures in one or more worktrees">> ELSE <<>>)
                       \o riskConcerns(flags),
         level     |-> riskLevel(flags)]

(* What createManifest is called with. *)
ManifestArgs(agent, worktree, summary, filesChanged, options) ==
    [agent |-> agent, worktree |-> worktree, summary |-> summary,
     filesChanged |-> filesChanged, options |-> options]

ReviewIdle ==
    /\ strictMode = TRUE
    /\ pmManifests = <<>>
    /\ pmCall = "none"
    /\ pmResult = NoResult

(***************************************************************************)
(* WorktreeManager, with git as far as spawn and cleanup depend on it      *)
(***************************************************************************)
WorktreeNames == {"baised_1_frontend", "baised_1_backend"}

Refs == {"main", "develop"}

(* A directory: the ref its content derives from, and whether git knows it *)
(* as a linked worktree.                                                   *)
Dir(from, linked) == [from |-> from, linked |-> linked]

(* The manager's registry with the repository's branches and directories. *)
Manager(reg, branch, dir) == [registry |-> reg, branch |-> branch, dir |-> dir]

(* The outcome of a git command or a method: the state it leaves, and      *)
(* whether it failed (threw).                                              *)
Ran(wm, failed) == [wm |-> wm, failed |-> failed]

(* git worktree add -b <name> <path> <baseRef> *)
WorktreeAddNewBranch(wm, name, baseRef) ==
    IF wm.branch[name] # None \/ wm.dir[name] # None THEN Ran(wm, TRUE)
    ELSE Ran([wm EXCEPT !.branch[name] = Some(baseRef),
                        !.dir[name] = Some(Dir(baseRef, TRUE))], FALSE)

(* git worktree add <path> <name> *)
WorktreeAddExisting(wm, name) ==
    IF wm.branch[name] = None \/ wm.dir[name] # None THEN Ran(wm, TRUE)
    ELSE Ran([wm EXCEPT !.dir[name] = Some(Dir(wm.branch[name][1], TRUE))], FALSE)

(* git worktree remove <path> --force *)
WorktreeRemove(wm, name) ==
    IF wm.dir[name] = None \/ ~wm.dir[name][1].linked THEN Ran(wm, TRUE)
    ELSE Ran([wm EXCEPT !.dir[name] = None], FALSE)

(* git branch -D <name> *)
BranchDelete(wm, name) ==
    IF wm.branch[name] = None \/ (wm.dir[name] # None /\ wm.dir[name][1].linked)
    THEN Ran(wm, TRUE)
    ELSE Ran([wm EXCEPT !.branch[name] = None], FALSE)

(* The registry without the entry of name: this.worktrees.delete(name). *)
Without(reg, name) == [n \in DOMAIN reg \ {name} |-> reg[n]]

(* As cleanup, deleting the entry before the git commands are tried. *)
cleanupEntryFirst(wm, name) ==
    IF name \notin DOMAIN wm.registry THEN Ran(wm, FALSE)
    ELSE LET removed == WorktreeRemove(wm, name)
             deleted == BranchDelete(removed.wm, name)
             left    == IF removed.failed THEN wm
                        ELSE IF deleted.failed THEN removed.wm ELSE deleted.wm
         IN  Ran([left EXCEPT !.registry = Without(wm.registry, name)], FALSE)

(* WorktreeManager.cleanup: the catch swallows a failing git command, so   *)
(* it never throws; the entry is deleted only after both went through.     *)
cleanupWorktree(wm, name) ==
    IF name \notin DOMAIN wm.registry THEN Ran(wm, FALSE)
    ELSE LET removed == WorktreeRemove(wm, name)
             deleted == BranchDelete(removed.wm, name)
         IN  IF removed.failed THEN Ran(wm, FALSE)
             ELSE IF deleted.failed THEN Ran(removed.wm, FALSE)
             ELSE Ran([deleted.wm EXCEPT !.registry = Without(wm.registry, name)], FALSE)

(* WorktreeManager.cleanupAll: cleanup for every key of the map. *)
RECURSIVE cleanupAll(_, _)
cleanupAll(wm, names) ==
    IF names = {} THEN Ran(wm, FALSE)
    ELSE LET n    == CHOOSE x \in names : TRUE
             done == cleanupWorktree(wm, n)
             rest == cleanupAll(done.wm, names \ {n})
         IN  Ran(rest.wm, done.failed \/ rest.failed)

(* WorktreeManager.exists *)
exists(wm, name) == name \in DOMAIN wm.registry

(* WorktreeManager.list, as the names of the entries. *)
list(wm) == DOMAIN wm.registry

(* As spawn, registering only a worktree created with a new branch. *)
spawnRegistersNewBranchOnly(wm, name, baseRef) ==
    LET cleaned  == IF wm.dir[name] # None THEN cleanupWorktree(wm, name).wm ELSE wm
        fresh    == WorktreeAddNewBranch(cleaned, name, baseRef)
        existing == WorktreeAddExisting(cleaned, name)
    IN  IF ~fresh.failed
        THEN Ran([fresh.wm EXCEPT
                    !.registry = [n \in DOMAIN cleaned.registry \cup {name} |->
                                    IF n = name THEN baseRef ELSE cleaned.registry[n]]],
                 FALSE)
        ELSE IF existing.failed THEN Ran(cleaned, TRUE)
        ELSE Ran([existing.wm EXCEPT !.registry = Without(cleaned.registry, name)], FALSE)

(* WorktreeManager.spawn *)
spawn(wm, name, baseRef) ==
    LET cleaned  == IF wm.dir[name] # None THEN cleanupWorktree(wm, name).wm ELSE wm
        fresh    == WorktreeAddNewBranch(cleaned, name, baseRef)
        existing == WorktreeAddExisting(cleaned, name)
        added    == IF fresh.failed THEN existing ELSE fresh
    IN  IF added.failed THEN Ran(cleaned, TRUE)
        ELSE Ran([added.wm EXCEPT
                    !.registry = [n \in DOMAIN cleaned.registry \cup {name} |->
                                    IF n = name THEN baseRef ELSE cleaned.registry[n]]],
                 FALSE)

MaxWorktreeCalls == 3     \* most steps taken on one manager

WorktreeCall(call, name, baseRef, before, failed) ==
    [call |-> call, name |-> name, baseRef |-> baseRef, before |-> before, failed |-> failed]

TheManager == Manager(wtRegistry, gitBranch, gitDir)

WorktreeIdle ==
    /\ wtRegistry = <<>>
    /\ gitBranch = [n \in WorktreeNames |-> None]
    /\ gitDir = [n \in WorktreeNames |-> None]
    /\ wtCreated = {}
    /\ wtCalls = <<>>

(* The manager and the repository after a step, and the worktrees of this  *)
(* manager's making that are still there.                                  *)
WorktreeStep(call, after, made) ==
    /\ wtRegistry' = after.registry
    /\ gitBranch' = after.branch
    /\ gitDir' = after.dir
    /\ wtCreated' = {n \in wtCreated \cup made : after.dir[n] # None}
    /\ wtCalls' = Append(wtCalls, call)

CallSpawn ==
    /\ Len(wtCalls) < MaxWorktreeCalls
    /\ \E name \in WorktreeNames, baseRef \in Refs :
          LET r == spawn(TheManager, name, baseRef)
          IN  WorktreeStep(WorktreeCall("spawn", name, baseRef, TheManager, r.failed),
                           r.wm, IF r.failed THEN {} ELSE {name})
    /\ UNCHANGED <<contractVars, reviewVars, preflightVars, routerVars, mergeVars, ownVars, execVars>>

CallCleanup ==
    /\ Len(wtCalls) < MaxWorktreeCalls
    /\ \E name \in WorktreeNames :
          LET r == cleanupWorktree(TheManager, name)
          IN  WorktreeStep(WorktreeCall("cleanup", name, None, TheManager, r.failed),
                           r.wm, {})
    /\ UNCHANGED <<contractVars, reviewVars, preflightVars, routerVars, mergeVars, ownVars, execVars>>

CallCleanupAll ==
    /\ Len(wtCalls) < MaxWorktreeCalls
    /\ LET r == cleanupAll(TheManager, DOMAIN wtRegistry)
       IN  WorktreeStep(WorktreeCall("cleanupAll", "", None, TheManager, r.failed), r.wm, {})
    /\ UNCHANGED <<contractVars, reviewVars, preflightVars, routerVars, mergeVars, ownVars, execVars>>

(* Outside the manager, git forgets the worktree of a registered workspace *)
(* (git worktree prune while its path was out of reach), after which       *)
(* `git worktree remove` fails on it; the directory is gone or still there. *)
WorktreePruned ==
    /\ Len(wtCalls) < MaxWorktreeCalls
    /\ \E name \in DOMAIN wtRegistry, gone \in BOOLEAN :
          /\ gitDir[name] # None /\ gitDir[name][1].linked
          /\ WorktreeStep(WorktreeCall("pruned", name, None, TheManager, FALSE),
                          [TheManager EXCEPT
                             !.dir[name] = IF gone THEN None
                                           ELSE Some(Dir(gitDir[name][1].from, FALSE))],
                          {})
    /\ UNCHANGED <<contractVars, reviewVars, preflightVars, routerVars, mergeVars, ownVars, execVars>>

(* Inside a registered workspace the agent renames its branch, after which *)
(* `git branch -D <name>` fails.                                           *)
BranchRenamed ==
    /\ Len(wtCalls) < MaxWorktreeCalls
    /\ \E name \in DOMAIN wtRegistry :
          /\ gitBranch[name] # None /\ gitDir[name] # None
          /\ WorktreeStep(WorktreeCall("renamed", name, None, TheManager, FALSE),
                          [TheManager EXCEPT !.branch[name] = None], {})
    /\ UNCHANGED <<contractVars, reviewVars, preflightVars, routerVars, mergeVars, ownVars, execVars>>

(* A tree: env as runPreflight finds it, with whether files are in fact    *)
(* modified (dirty), which git status reports unless it cannot be read.    *)
RepoTree(isRepo, baseExists, status, writable, dirty) ==
    [isRepo |-> isRepo, baseExists |-> baseExists, status |-> status,
     writable |-> writable, dirty |-> dirty]

PreflightIdle ==
    /\ pfTree = RepoTree(TRUE, TRUE, "clean", TRUE, FALSE)
    /\ pfAllowDirty = FALSE
    /\ pfResult = NoResult

CallRunPreflight ==
    /\ pfResult = NoResult
    /\ pfResult' = Some(runPreflight(pfTree, pfAllowDirty))
    /\ UNCHANGED <<pfTree, pfAllowDirty, contractVars, reviewVars, worktreeVars, routerVars,
                   mergeVars, ownVars, execVars>>

(* Task ids drawn for route; a fresh Router tracks none of them. *)
RouteIds == {"t1", "t2"}

RouterIdle ==
    /\ routerTasks = [id \in RouteIds |-> None]
    /\ routeCalls = <<>>
    /\ notified = <<>>

UnitsIdle == ContractIdle /\ ReviewIdle /\ WorktreeIdle /\ PreflightIdle /\ RouterIdle

MaxManifests == 2         \* most manifests handed to one review

ManifestAgents == {"Frontend", "Backend", "CONFLICT"}

ManifestFiles == {"shared/types.ts", "apps/api/auth.ts"}

ManifestCommit == Commit("c1", {"shared/types.ts"})

setStrictMode ==
    /\ pmCall = "none"
    /\ \E strict \in BOOLEAN : strict # strictMode /\ strictMode' = strict
    /\ UNCHANGED <<pmManifests, pmCall, pmResult, contractVars, worktreeVars, preflightVars, routerVars, mergeVars, ownVars,
                   execVars>>

CallReview ==
    /\ pmCall = "none"
    /\ pmCall' = "review"
    /\ pmResult' = Some(review(pmManifests, strictMode))
    /\ UNCHANGED <<strictMode, pmManifests, contractVars, worktreeVars, preflightVars, routerVars, mergeVars,
                   ownVars, execVars>>

CallDetectConflicts ==
    /\ pmCall = "none"
    /\ pmCall' = "detectConflicts"
    /\ pmResult' = Some(detectConflicts(pmManifests))
    /\ UNCHANGED <<strictMode, pmManifests, contractVars, worktreeVars, preflightVars, routerVars, mergeVars,
                   ownVars, execVars>>

(* createManifest, and validateManifest on what it returned. *)
CallCreateManifest ==
    /\ pmCall = "none"
    /\ pmManifests = <<>>
    /\ \E agent \in {"", "Backend"}, worktree \in {"", "feat-auth-api"},
          summary \in {"", "Add JWT middleware"},
          filesChanged \in {<<>>, <<"apps/api/auth.ts">>},
          headCommit \in {None, Some(ManifestCommit)},
          noOp \in {None, Some(TRUE)},
          testStatus \in {None, Some("pass"), Some("fail"), Some("skipped")},
          riskFlags \in {None, Some(<<"db-migration">>),
                         Some(<<"touches-auth", "breaking-change">>)} :
          LET options == ManifestOptions(headCommit, noOp, testStatus, riskFlags)
              m       == createManifest(agent, worktree, summary, filesChanged, options)
          IN  /\ pmManifests' = <<m>>
              /\ pmResult' = Some([args |-> ManifestArgs(agent, worktree, summary,
                                                         filesChanged, options),
                                   validation |-> validateManifest(m)])
    /\ pmCall' = "createManifest"
    /\ UNCHANGED <<strictMode, contractVars, worktreeVars, preflightVars, routerVars, mergeVars,
                   ownVars, execVars>>

(* validateManifest(manifest: any): on the one manifest at hand, or on a    *)
(* value an agent may hand in, well-formed or not.                         *)
AnyManifests ==
    [agent        : {"", "Backend"},
     worktree     : {"", "feat-auth-api"},
     headCommit   : {NoCommit, Some(ManifestCommit), Some(UnknownCommit)},
     noOp         : {FALSE},
     summary      : {"", "Add JWT middleware"},
     filesChanged : {<<>>, <<"apps/api/auth.ts">>, NotAnArray},
     testStatus   : {"pass", "fail", "skipped", "undefined"},
     riskFlags    : {<<>>, <<"db-migration">>, <<"touches-auth", "breaking-change">>,
                     <<"experimental">>, <<"db-migration", "experimental">>}]

CallValidateManifest ==
    /\ pmCall = "none"
    /\ Len(pmManifests) <= 1
    /\ \E m \in (IF pmManifests = <<>> THEN AnyManifests ELSE {pmManifests[1]}) :
          /\ pmManifests' = <<m>>
          /\ pmResult' = Some(validateManifest(m))
    /\ pmCall' = "validateManifest"
    /\ UNCHANGED <<strictMode, contractVars, worktreeVars, preflightVars, routerVars, mergeVars,
                   ownVars, execVars>>

(***************************************************************************)
(* BAiSEDFactory.execute: one run                                          *)
(***************************************************************************)
MaxAgents == 2      \* longest options.agents drawn

(* initialize() registers these agents with the router. *)
Registered == {"ProjectLead", "ResearchLead", "Improver"}

(* options.agents || ['Frontend', 'Backend'] *)
departmentAgents(opt) == IF opt # None THEN opt[1] ELSE <<"Frontend", "Backend">>

toLowerCase(name) ==
    CASE name = "ProjectLead"  -> "projectlead"
      [] name = "ResearchLead" -> "researchlead"
      [] name = "Improver"     -> "improver"
      [] name = "Frontend"     -> "frontend"
      [] name = "Backend"      -> "backend"
      [] OTHER                 -> name

(* `${pipelineId}_${agentName.toLowerCase()}`, for the one pipelineId of the run *)
branchName(agentName) == "baised_1_" \o toLowerCase(agentName)

(* The gate after Phase 0: the run goes on only when preflight.ok. *)
PreflightPassesAlways(pf) == TRUE

PreflightPasses(pf) == pf.ok

(* WorktreeManager.cleanup: a name not in the registry is left alone; the   *)
(* entry goes only when the removal succeeded.                              *)
cleanup(reg, name, removed) == IF name \in reg /\ removed THEN reg \ {name} ELSE reg

(* for (const wt of worktrees) cleanup(wt); stuck: the removals that fail. *)
RECURSIVE CleanupEach(_, _, _, _)
CleanupEach(reg, wts, k, stuck) ==
    IF k > Len(wts) THEN reg
    ELSE CleanupEach(cleanup(reg, wts[k], wts[k] \notin stuck), wts, k + 1, stuck)

(* What the agent task did: threw, or resolved with success and the state   *)
(* it left its workspace in (work), whether result.data.filesChanged lists  *)
(* the files, and whether an auto-commit of the leftovers would succeed.    *)
AgentOutcome(threw, success, work, declares, commitOk) ==
    [threw |-> threw, success |-> success, work |-> work, declares |-> declares,
     commitOk |-> commitOk]

WorkspaceAfter(agentName, files, work) ==
    CASE work = "committed"   -> Workspace(Commit(agentName, Range(files)), {}, TRUE)
      [] work = "uncommitted" -> Workspace(BaseCommit, Range(files), TRUE)
      [] OTHER                -> Workspace(BaseCommit, {}, TRUE)

(* The value runAgentWithCommit returns from its catch block. *)
CaughtResult(agentName) ==
    [success |-> FALSE, manifest |-> None, worktree |-> None, commitHash |-> NoCommit,
     agent |-> agentName]

(* runAgentWithCommit from the await of agent.execute on. *)
AfterAgent(agentName, files, o) ==
    IF o.threw THEN CaughtResult(agentName)
    ELSE LET ws == WorkspaceAfter(agentName, files, o.work)
             v  == verifyCommitContract(ws)
             e  == enforceCommit(ws, agentName, o.commitOk)
         IN  IF ~v.valid /\ ~e.success THEN CaughtResult(agentName)
             ELSE [success    |-> o.success,
                   manifest   |-> Some(createManifest(
                                     agentName, branchName(agentName),
                                     IF o.success THEN "Completed implement" ELSE "Failed",
                                     IF o.declares THEN files ELSE <<>>,
                                     ManifestOptions(
                                         NoCommit, None,
                                         Some(IF o.success THEN "pass" ELSE "fail"),
                                         Some(<<>>)))),
                   worktree   |-> Some(branchName(agentName)),
                   commitHash |-> IF v.valid THEN v.headCommit ELSE e.commitHash,
                   agent      |-> agentName]

(* runAgentWithCommit up to the await: spawn, then router.getAgent, both    *)
(* outside the try.  Either may throw, which rejects the call.              *)
LaunchState(agentName, spawnOk) ==
    IF spawnOk /\ agentName \in Registered THEN "running" ELSE "rejected"

(* steps: what runAgentWithCommit has done in the workspace so far. *)
Task(agentName, state, result) ==
    [agent |-> agentName, state |-> state, result |-> result, steps |-> <<>>]

Step(step, ok) == [step |-> step, ok |-> ok]

(* As ContractSteps, calling enforceCommit whatever verify returned. *)
ContractStepsAlwaysEnforce(agentName, files, o) ==
    IF o.threw THEN <<Step("agent", FALSE)>>
    ELSE LET ws == WorkspaceAfter(agentName, files, o.work)
             v  == verifyCommitContract(ws)
             e  == enforceCommit(ws, agentName, o.commitOk)
         IN  <<Step("agent", TRUE), Step("verify", v.valid), Step("enforce", e.success)>>
             \o (IF e.success THEN <<Step("manifest", TRUE)>> ELSE <<>>)

(* The statements of runAgentWithCommit's try block that ran, in order:    *)
(* the await of agent.execute, verifyCommitContract, enforceCommit,        *)
(* createManifest.                                                         *)
ContractSteps(agentName, files, o) ==
    IF o.threw THEN <<Step("agent", FALSE)>>
    ELSE LET ws == WorkspaceAfter(agentName, files, o.work)
             v  == verifyCommitContract(ws)
             e  == enforceCommit(ws, agentName, o.commitOk)
         IN  <<Step("agent", TRUE), Step("verify", v.valid)>>
             \o (IF ~v.valid THEN <<Step("enforce", e.success)>> ELSE <<>>)
             \o (IF v.valid \/ e.success THEN <<Step("manifest", TRUE)>> ELSE <<>>)

(* The three lists execute fills from the results, in order. *)
RECURSIVE Collect(_, _)
Collect(ts, k) ==
    IF k > Len(ts) THEN [manifests |-> <<>>, worktrees |-> <<>>, commits |-> <<>>]
    ELSE LET rest == Collect(ts, k + 1)
             r    == ts[k].result[1]
         IN  [manifests |-> r.manifest \o rest.manifests,
              worktrees |-> r.worktree \o rest.worktrees,
              commits   |-> (IF r.commitHash # NoCommit
                             THEN <<[agent |-> r.agent, commitHash |-> r.commitHash[1]]>>
                             ELSE <<>>) \o rest.commits]

(* The run from the failures check to the merge: where it throws, if it     *)
(* does, and what the review and the merge returned.                        *)
AfterDepartments(ms, cs, log, order, checkoutOk, leftover) ==
    LET rev == review(ms, TRUE)
        out == MergeOutcome(log, cs, order, checkoutOk, leftover)
    IN  IF \E k \in DOMAIN ms : ms[k].testStatus = "fail"
        THEN [threw |-> "tests", review |-> None, merge |-> None]
        ELSE IF ~rev.approved
        THEN [threw |-> "review", review |-> Some(rev), merge |-> None]
        ELSE IF ~out.result.success
        THEN [threw |-> "merge", review |-> Some(rev), merge |-> Some(out)]
        ELSE [threw |-> "none", review |-> Some(rev), merge |-> Some(out)]

(* The catch block of execute, entered with the list wts and the registry  *)
(* reg: the workspaces in wts are cleaned up unless                         *)
(* BAISED_PRESERVE_WORKTREES is 'true', and success=false is returned.      *)
Caught(why, wts, reg) ==
    /\ pc' = "done"
    /\ execResult' = Some([success |-> FALSE, finalCommit |-> NoCommit, error |-> why])
    /\ \E stuck \in SUBSET Range(wts) :
          registry' = IF preserveWorktrees THEN reg ELSE CleanupEach(reg, wts, 1, stuck)

(* The inputs of a run *)
ExecAgentNames == {"ProjectLead", "Improver", "Frontend"}

(* Lists that name an agent twice, the second time also in another letter   *)
(* case ("improver" is not a registered name).                              *)
CollidingLists == {<<"Improver", "Improver">>, <<"Improver", "improver">>}

AgentLists ==
    {a \in SeqUpTo(ExecAgentNames, MaxAgents) : Cardinality(Range(a)) = Len(a)}
        \cup CollidingLists

AgentOptions == {None} \cup {Some(a) : a \in AgentLists}

ExecFiles == { <<"tools/gen.ts">>, <<"shared/types.ts">> }

ExecOrders == {NoOrder, Some(<<"Improver">>)}

PreflightEnvs ==
    [isRepo : BOOLEAN, baseExists : BOOLEAN, status : {"clean", "dirty", "unreadable"},
     writable : BOOLEAN]

AgentOutcomes ==
    { AgentOutcome(TRUE,  FALSE, "none",        FALSE, TRUE),    \* the task threw
      AgentOutcome(FALSE, TRUE,  "committed",   TRUE,  TRUE),
      AgentOutcome(FALSE, TRUE,  "committed",   FALSE, TRUE),
      AgentOutcome(FALSE, TRUE,  "uncommitted", TRUE,  TRUE),    \* auto-committed
      AgentOutcome(FALSE, TRUE,  "uncommitted", TRUE,  FALSE),   \* auto-commit fails
      AgentOutcome(FALSE, TRUE,  "none",        FALSE, TRUE),    \* nothing changed
      AgentOutcome(FALSE, FALSE, "committed",   TRUE,  TRUE) }   \* tests failed

(* runAgentWithWorktree (Phases 2 and 3): an opaque agent call that returns *)
(* a Result or throws.                                                      *)
runAgentWithWorktree == {"success", "failure", "throws"}

(* initialize(): the persistence store is opened, the agents are registered *)
(* with the router (Registered) and the factory is marked initialized.      *)
initialize ==
    /\ pc = "ready"
    /\ ~initialized
    /\ initialized' = TRUE
    /\ UNCHANGED <<mergeVars, ownVars, unitVars, pc, parallel, agents, planned, preflight,
                   registry, spawnCalls, tasks, worktrees, manifests, reviewResult,
                   execResult, phases, preserveWorktrees>>

(* The guard of execute held against a call made before initialize(): the   *)
(* call throws from outside the try block, so the promise rejects.          *)
ExecuteRejects ==
    /\ pc = "ready"
    /\ ~initialized
    /\ pc' = "threw"
    /\ UNCHANGED <<mergeVars, ownVars, unitVars, initialized, parallel, agents, planned,
                   preflight, registry, spawnCalls, tasks, worktrees, manifests,
                   reviewResult, execResult, phases, preserveWorktrees>>

(* execute up to the end of Phase 1.  Phase 1 builds plannedChanges with    *)
(* empty file lists and sets ownershipCheck = {safe: true}: no state.       *)
Start ==
    /\ pc = "ready"
    /\ initialized
    /\ \E par \in BOOLEAN, ag \in AgentOptions, ord \in ExecOrders,
          env \in PreflightEnvs, allowDirty \in BOOLEAN :
          \E pl \in [DOMAIN departmentAgents(ag) -> ExecFiles] :
             LET pf   == runPreflight(env, allowDirty)
                 dept == departmentAgents(ag)
             IN  /\ env.status = "dirty" => repoDirty
                 /\ env.status = "clean" => ~repoDirty
                 /\ parallel' = par
                 /\ agents' = ag
                 /\ planned' = pl
                 /\ mergeOrder' = ord
                 /\ preflight' = Some(pf)
                 /\ tasks' = [i \in DOMAIN dept |-> Task(dept[i], "pending", None)]
                 /\ phases' = <<"preflight">>
                 /\ IF PreflightPasses(pf)
                    THEN pc' = "plan" /\ UNCHANGED <<execResult, registry>>
                    ELSE Caught("preflight", worktrees, registry)
    /\ UNCHANGED <<target, repoDirty, commits, preTarget, mergeResult, mergeCalls,
                   ownVars, unitVars, spawnCalls, worktrees, manifests,
                   reviewResult, preserveWorktrees, initialized>>

Plan ==
    /\ pc = "plan"
    /\ phases' = Append(phases, "plan")
    /\ \E planResult \in runAgentWithWorktree :
          IF planResult = "success"
          THEN pc' = "research" /\ UNCHANGED <<execResult, registry>>
          ELSE Caught("plan", worktrees, registry)
    /\ UNCHANGED <<mergeVars, ownVars, unitVars, parallel, agents, planned, preflight, spawnCalls,
                   tasks, worktrees, manifests, reviewResult, preserveWorktrees, initialized>>

Research ==
    /\ pc = "research"
    /\ \E researchResult \in runAgentWithWorktree :
          IF researchResult # "throws"
          THEN /\ pc' = "implement"
               /\ phases' = phases \o <<"research", "implement">>
               /\ UNCHANGED <<execResult, registry>>
          ELSE /\ phases' = Append(phases, "research")
               /\ Caught("research", worktrees, registry)
    /\ UNCHANGED <<mergeVars, ownVars, unitVars, parallel, agents, planned, preflight, spawnCalls,
                   tasks, worktrees, manifests, reviewResult, preserveWorktrees, initialized>>

(* Phase 4, parallel: departmentAgents.map(runAgentWithCommit) runs every   *)
(* call up to its first await.                                              *)
LaunchDepartments ==
    /\ pc = "implement" /\ parallel
    /\ tasks # <<>>
    /\ \A i \in DOMAIN tasks : tasks[i].state = "pending"
    /\ \E spawnOk \in [DOMAIN tasks -> BOOLEAN] :
          /\ tasks' = [i \in DOMAIN tasks |->
                          Task(tasks[i].agent, LaunchState(tasks[i].agent, spawnOk[i]), None)]
          /\ registry' = registry \cup
                            {branchName(tasks[i].agent) : i \in {j \in DOMAIN tasks : spawnOk[j]}}
    /\ spawnCalls' = spawnCalls + Len(tasks)
    /\ UNCHANGED <<mergeVars, ownVars, unitVars, pc, parallel, agents, planned, preflight,
                   worktrees, manifests, reviewResult, execResult, phases,
                   preserveWorktrees, initialized>>

(* Phase 4, sequential: the next call starts when the one before resolved. *)
LaunchDepartment ==
    /\ pc = "implement" /\ ~parallel
    /\ \E i \in DOMAIN tasks :
          /\ tasks[i].state = "pending"
          /\ \A j \in 1..(i - 1) : tasks[j].state = "resolved"
          /\ \E spawnOk \in BOOLEAN :
                /\ tasks' = [tasks EXCEPT ![i].state = LaunchState(tasks[i].agent, spawnOk)]
                /\ registry' = IF spawnOk THEN registry \cup {branchName(tasks[i].agent)}
                               ELSE registry
    /\ spawnCalls' = spawnCalls + 1
    /\ UNCHANGED <<mergeVars, ownVars, unitVars, pc, parallel, agents, planned, preflight,
                   worktrees, manifests, reviewResult, execResult, phases,
                   preserveWorktrees, initialized>>

(* agent.execute of department i settles and runAgentWithCommit runs to its *)
(* return.  In sequential mode execute takes the result at once.            *)
AgentSettles(i) ==
    /\ pc = "implement"
    /\ tasks[i].state = "running"
    /\ \E o \in AgentOutcomes :
          LET done == [tasks EXCEPT ![i] =
                          [Task(tasks[i].agent, "resolved",
                                Some(AfterAgent(tasks[i].agent, planned[i], o)))
                             EXCEPT !.steps = ContractSteps(tasks[i].agent, planned[i], o)]]
              col  == Collect(SubSeq(done, 1, i), 1)
          IN  /\ tasks' = done
              /\ IF parallel
                 THEN UNCHANGED <<worktrees, manifests, commits>>
                 ELSE /\ worktrees' = col.worktrees
                      /\ manifests' = col.manifests
                      /\ commits' = col.commits
    /\ UNCHANGED <<target, repoDirty, mergeOrder, preTarget, mergeResult, mergeCalls,
                   ownVars, unitVars, pc, parallel, agents, planned, preflight, registry,
                   spawnCalls, reviewResult, execResult, phases, preserveWorktrees, initialized>>

(* A department call rejected (spawn or getAgent threw): the await in       *)
(* execute throws into the catch block.                                     *)
Reject ==
    /\ pc = "implement"
    /\ \E i \in DOMAIN tasks : tasks[i].state = "rejected"
    /\ Caught("agent", worktrees, registry)
    /\ UNCHANGED <<mergeVars, ownVars, unitVars, parallel, agents, planned, preflight, spawnCalls,
                   tasks, worktrees, manifests, reviewResult, phases, preserveWorktrees, initialized>>

(* Every department call resolved: the results are taken in order, then the *)
(* failures check, the review, the merge, the cleanup and the return.       *)
Join ==
    /\ pc = "implement"
    /\ \A i \in DOMAIN tasks : tasks[i].state = "resolved"
    /\ \E checkoutOk \in BOOLEAN, leftover \in BOOLEAN :
          LET col == Collect(tasks, 1)
              t   == AfterDepartments(col.manifests, col.commits, target, mergeOrder,
                                      checkoutOk, leftover)
          IN  /\ worktrees' = col.worktrees
              /\ manifests' = col.manifests
              /\ commits' = col.commits
              /\ reviewResult' = t.review
              /\ phases' = phases \o (IF t.review # None THEN <<"review">> ELSE <<>>)
                                  \o (IF t.merge # None THEN <<"merge">> ELSE <<>>)
              /\ IF t.merge # None
                 THEN /\ target' = t.merge[1].target
                      /\ repoDirty' = (repoDirty \/ t.merge[1].dirty)
                      /\ mergeResult' = Some(t.merge[1].result)
                      /\ preTarget' = target
                      /\ mergeCalls' = mergeCalls + 1
                 ELSE UNCHANGED <<target, repoDirty, mergeResult, preTarget, mergeCalls>>
              /\ IF t.threw = "none"
                 THEN /\ pc' = "done"
                      /\ execResult' = Some([success |-> TRUE,
                                             finalCommit |-> t.merge[1].result.finalCommit,
                                             error |-> "none"])
                      /\ \E stuck \in SUBSET Range(col.worktrees) :
                            registry' = CleanupEach(registry, col.worktrees, 1, stuck)
                 ELSE Caught(t.threw, col.worktrees, registry)
    /\ UNCHANGED <<mergeOrder, ownVars, unitVars, parallel, agents, planned, preflight, spawnCalls,
                   tasks, preserveWorktrees, initialized>>

Init ==
    /\ initialized = FALSE
    /\ pc = "ready"
    /\ repoDirty \in BOOLEAN
    /\ target = <<>>
    /\ commits = <<>>
    /\ mergeOrder = NoOrder
    /\ preTarget = <<>>
    /\ mergeResult = NoResult
    /\ mergeCalls = 0
    /\ plan = <<>>
    /\ config = DEFAULT_OWNERSHIP
    /\ ownCall = "none"
    /\ ownResult = NoResult
    /\ ownThrew = FALSE
    /\ parallel = FALSE
    /\ agents = None
    /\ planned = <<>>
    /\ preflight = None
    /\ registry = {}
    /\ spawnCalls = 0
    /\ tasks = <<>>
    /\ worktrees = <<>>
    /\ manifests = <<>>
    /\ reviewResult = None
    /\ execResult = None
    /\ phases = <<>>
    /\ preserveWorktrees \in BOOLEAN
    /\ UnitsIdle

Next ==
    \/ initialize
    \/ ExecuteRejects
    \/ Start
    \/ Plan
    \/ Research
    \/ LaunchDepartments
    \/ LaunchDepartment
    \/ \E i \in DOMAIN tasks : AgentSettles(i)
    \/ Reject
    \/ Join

Spec == Init /\ [][Next]_vars

(***************************************************************************)
(* The inputs of SpecMerge                                                 *)
(***************************************************************************)
AcceptedUniverse ==
    { [agent |-> "Backend",  commitHash |-> Commit("c1", {"apps/api/auth.ts"})],
      [agent |-> "Frontend", commitHash |-> Commit("c2", {"apps/web/login.tsx"})],
      [agent |-> "QA",       commitHash |-> Commit("c3", {"tests/auth.test.ts"})],
      [agent |-> "Docs",     commitHash |-> Commit("c4", {"docs/auth.md"})],
      [agent |-> "API",      commitHash |-> Commit("c6", {"apps/api/routes.ts"})],
      [agent |-> "Infra",    commitHash |->
                     Commit("c5", {"apps/api/auth.ts", "apps/web/login.tsx"})] }

OrderAgents == {"Backend", "Frontend", "Infra"}

(* What target may hold before the call: nothing, or an earlier commit. *)
PreTargets == { <<>>, <<Commit("c0", {"tests/auth.test.ts"})>> }

OwnIdle ==
    /\ plan = <<>>
    /\ config = DEFAULT_OWNERSHIP
    /\ ownCall = "none"
    /\ ownResult = NoResult
    /\ ownThrew = FALSE

ExecIdle ==
    /\ initialized = FALSE
    /\ pc = "idle"
    /\ parallel = FALSE
    /\ agents = None
    /\ planned = <<>>
    /\ preflight = None
    /\ registry = {}
    /\ spawnCalls = 0
    /\ tasks = <<>>
    /\ worktrees = <<>>
    /\ manifests = <<>>
    /\ reviewResult = None
    /\ execResult = None
    /\ phases = <<>>
    /\ preserveWorktrees = FALSE

InitMerge ==
    /\ target \in PreTargets
    /\ repoDirty = FALSE
    /\ commits \in SeqUpTo(AcceptedUniverse, MaxCommits)
    /\ mergeOrder \in {NoOrder} \cup {Some(o) : o \in SeqUpTo(OrderAgents, MaxOrder)}
    /\ preTarget = target
    /\ mergeResult = NoResult
    /\ mergeCalls = 0
    /\ OwnIdle
    /\ ExecIdle
    /\ UnitsIdle

NextMerge == mergeCommitsAtomic

SpecMerge == InitMerge /\ [][NextMerge]_vars

(***************************************************************************)
(* The inputs of SpecOwn, and its calls                                    *)
(***************************************************************************)
OwnAgents == {"Frontend", "Backend"}

OwnPaths ==
    { "apps/web/login.tsx",    \* owned by Frontend in DEFAULT_OWNERSHIP
      "apps/api/auth.ts",      \* owned by Backend
      "shared/types.ts",       \* restricted
      "pnpm-lock.yaml",        \* restricted, and a lockfile
      "docs/package-lock.json",\* shared, owned by Docs, and a lockfile
      "dist/app.js" }          \* generated

(* DEFAULT_OWNERSHIP and configurations that drop parts of it. *)
WithoutLockfileOwner == [DEFAULT_OWNERSHIP EXCEPT !.lockfileOwner = None]

OpenConfig ==
    [DEFAULT_OWNERSHIP EXCEPT !.generatedPaths = <<>>, !.allowSharedPaths = <<>>,
                              !.restrictedPaths = <<>>, !.owners = <<>>]

SharedOwnedConfig ==
    [DEFAULT_OWNERSHIP EXCEPT !.owners = <<Owner("Backend", <<"shared/", "apps/">>),
                                           Owner("Frontend", <<"shared/">>)>>]

Advisory == [DEFAULT_OWNERSHIP EXCEPT !.strict = FALSE]

OwnConfigs ==
    {DEFAULT_OWNERSHIP, Advisory, WithoutLockfileOwner, OpenConfig, SharedOwnedConfig}

(* A configuration whose generatedPaths also cover a restricted path, a      *)
(* restricted lockfile and an owned path, and the paths it is drawn with:    *)
(* those three and one that is not generated.                               *)
GeneratedOverlapConfig ==
    [DEFAULT_OWNERSHIP EXCEPT
        !.generatedPaths = <<"dist/", "shared/", "pnpm-lock.yaml", "apps/api/">>]

(* A configuration whose allowSharedPaths also cover a restricted path, a     *)
(* restricted lockfile and a path owned by Backend.                          *)
SharedOverlapConfig ==
    [DEFAULT_OWNERSHIP EXCEPT
        !.allowSharedPaths = <<"docs/", "shared/", "pnpm-lock.yaml", "apps/api/">>]

OverlapPaths ==
    {"shared/types.ts", "pnpm-lock.yaml", "apps/api/auth.ts", "apps/web/login.tsx"}

(* A drawn sequence of (agent, file) claims as a PlannedChange[]: a run of   *)
(* claims of one agent is one PlannedChange listing those files.            *)
RECURSIVE GroupClaims(_)
GroupClaims(cl) ==
    IF cl = <<>> THEN <<>>
    ELSE LET rest == GroupClaims(SubSeq(cl, 1, Len(cl) - 1))
             last == cl[Len(cl)]
         IN  IF rest # <<>> /\ rest[Len(rest)].agent = last.agent
             THEN [rest EXCEPT ![Len(rest)].files = Append(@, last.file)]
             ELSE Append(rest, [agent |-> last.agent, files |-> <<last.file>>])

(* The authority the restricted paths are reserved for: "PM-only" in the     *)
(* comment on restrictedPaths and in the RESTRICTED messages.  An agent name *)
(* of a PlannedChange is any string, this one included.                      *)
DesignatedAuthority == "PM"

OwnClaims == [agent : OwnAgents, file : OwnPaths]

(* Claims of plans in which the authority itself appears as an agent, on    *)
(* restricted paths, alone or next to a department agent.                   *)
AuthorityClaims ==
    [agent : {DesignatedAuthority}, file : {"shared/types.ts", "pnpm-lock.yaml"}]
        \cup {[agent |-> "Frontend", file |-> "shared/types.ts"]}

OwnPlans ==
    {GroupClaims(cl) : cl \in SeqUpTo(OwnClaims, MaxClaims)}
        \cup {GroupClaims(cl) : cl \in SeqUpTo(AuthorityClaims, MaxClaims)}

OverlapPlans ==
    {GroupClaims(cl) : cl \in SeqUpTo([agent : OwnAgents, file : OverlapPaths], MaxClaims)}

MergeIdle ==
    /\ target = <<>>
    /\ repoDirty = FALSE
    /\ commits = <<>>
    /\ mergeOrder = NoOrder
    /\ preTarget = <<>>
    /\ mergeResult = NoResult
    /\ mergeCalls = 0

InitOwn ==
    /\ \/ plan \in OwnPlans /\ config \in OwnConfigs
       \/ plan \in OverlapPlans /\ config \in {GeneratedOverlapConfig, SharedOverlapConfig}
    /\ ownCall = "none"
    /\ ownResult = NoResult
    /\ ownThrew = FALSE
    /\ MergeIdle
    /\ ExecIdle
    /\ UnitsIdle

CallCheckOwnership ==
    /\ ownCall = "none"
    /\ ownCall' = "checkOwnership"
    /\ ownResult' = Some(checkOwnership(plan, config))
    /\ ownThrew' = FALSE
    /\ UNCHANGED <<plan, config, mergeVars, execVars, unitVars>>

CallEnforceOwnershipOrThrow ==
    /\ ownCall = "none"
    /\ ownCall' = "enforceOwnershipOrThrow"
    /\ LET out == enforceOwnershipOrThrow(plan, config)
       IN  /\ ownResult' = out.value
           /\ ownThrew' = out.threw
    /\ UNCHANGED <<plan, config, mergeVars, execVars, unitVars>>

CallValidateParallelPlan ==
    /\ ownCall = "none"
    /\ ownCall' = "validateParallelPlan"
    /\ ownResult' = Some(validateParallelPlan(plan, config))
    /\ ownThrew' = FALSE
    /\ UNCHANGED <<plan, config, mergeVars, execVars, unitVars>>

NextOwn == CallCheckOwnership \/ CallEnforceOwnershipOrThrow \/ CallValidateParallelPlan

SpecOwn == InitOwn /\ [][NextOwn]_vars

(* checkOwnership alone, on every drawn plan and configuration. *)
SpecOwnCheck == InitOwn /\ [][CallCheckOwnership]_vars

(***************************************************************************)
(* The inputs of SpecContract: a workspace as an agent may leave it        *)
(***************************************************************************)
ContractHeads ==
    {BaseCommit} \cup {Commit(a, fs) : a \in ContractAgents, fs \in (SUBSET ContractFiles) \ {{}}}

InitContract ==
    /\ workspace \in {Workspace(h, d, u) :
                        h \in ContractHeads, d \in SUBSET ContractFiles, u \in BOOLEAN}
    /\ contractLog = <<>>
    /\ ReviewIdle
    /\ WorktreeIdle
    /\ PreflightIdle
    /\ RouterIdle
    /\ MergeIdle
    /\ OwnIdle
    /\ ExecIdle

NextContract == CallVerifyCommitContract \/ CallEnforceCommit \/ WorkspaceEdited

SpecContract == InitContract /\ [][NextContract]_vars

(***************************************************************************)
(* Claims about mergeCommitsAtomic (checked under SpecMerge)               *)
(***************************************************************************)
MergeReturned == mergeResult # NoResult
MergeSuccess  == MergeReturned /\ mergeResult[1].success
MergeFailure  == MergeReturned /\ ~mergeResult[1].success

(* The commits the call put on target, oldest first. *)
NewOnTarget == SubSeq(target, Len(preTarget) + 1, Len(target))

TimesApplied(c) == Cardinality({i \in DOMAIN NewOnTarget : NewOnTarget[i] = c})

(* The head's tree holds the change of every accepted commit. *)
ReflectsAllAccepted ==
    \A i \in DOMAIN commits :
        \A f \in commits[i].commitHash.files :
            Content(target, f) = commits[i].commitHash.id

(* C1: whenever mergeCommitsAtomic returns success=false, the head of target *)
(* after the call is the head before the call: no commit applied earlier in  *)
(* the call remains on target.                                               *)
C1_FailureLeavesTargetUnchanged ==
    MergeFailure => target = preTarget

(* C2: whenever mergeCommitsAtomic returns success=true, every commit of the *)
(* accepted list has been applied to target exactly once, finalCommit is the *)
(* head of target, and its tree reflects every accepted change; for the      *)
(* default order and for any explicit mergeOrder.                            *)
C2_SuccessAppliesEveryCommitOnce ==
    MergeSuccess =>
        /\ \A i \in DOMAIN commits : TimesApplied(commits[i].commitHash) = 1
        /\ mergeResult[1].finalCommit = Some(target)
        /\ ReflectsAllAccepted

(* C3: a merge of N >= 1 accepted commits either leaves target unchanged or  *)
(* succeeds having added exactly one new commit that reflects all accepted   *)
(* work.                                                                     *)
C3_OneNewCommitOrUnchanged ==
    (MergeReturned /\ Len(commits) >= 1) =>
        \/ target = preTarget
        \/ /\ MergeSuccess
           /\ Len(target) = Len(preTarget) + 1
           /\ ReflectsAllAccepted

(***************************************************************************)
(* Claims about the ownership map (checked under SpecOwn)                  *)
(***************************************************************************)
Checked == ownCall = "checkOwnership"
Res     == ownResult[1]

ClaimedPaths == UNION {Range(plan[k].files) : k \in DOMAIN plan}

Claimants(f) == {plan[k].agent : k \in {j \in DOMAIN plan : f \in Range(plan[j].files)}}

PairwiseDisjoint == \A f \in ClaimedPaths : Cardinality(Claimants(f)) <= 1

Generated(f)  == matchesAny(f, config.generatedPaths)
Shared(f)     == matchesAny(f, config.allowSharedPaths)
Restricted(f) == matchesAny(f, config.restrictedPaths)

Clean == Res.ok /\ Res.conflicts = <<>> /\ Res.violations = <<>>

(* No agent claims a restricted path, or a lockfile path without being the  *)
(* lockfileOwner.                                                           *)
NoForeignRestrictedOrLockfile ==
    \A f \in ClaimedPaths : \A a \in Claimants(f) :
        /\ ~Restricted(f)
        /\ isLockfile(f) => config.lockfileOwner = Some(a)

(* No agent claims a path whose owners entries name other agents only. *)
NoForeignOwned ==
    \A f \in ClaimedPaths : \A a \in Claimants(f) :
        getOwners(f, config) # <<>> => a \in Range(getOwners(f, config))

(* C7 as stated: for every plan in which the agents claim pairwise-disjoint  *)
(* path sets and no agent claims a restricted or lockfile path it does not   *)
(* own, checkOwnership returns ok=true with no conflicts and no violations.  *)
C7_DisjointPlanIsClean_AsStated ==
    (Checked /\ PairwiseDisjoint /\ NoForeignRestrictedOrLockfile) => Clean

(* C7 amended: the same, for plans in which moreover no agent claims a path  *)
(* that the owners map assigns to other agents only.                         *)
C7_DisjointOwnedPlanIsClean ==
    (Checked /\ PairwiseDisjoint /\ NoForeignRestrictedOrLockfile /\ NoForeignOwned)
        => Clean

C7_Witness ==
    /\ Checked /\ PairwiseDisjoint /\ NoForeignRestrictedOrLockfile /\ NoForeignOwned
    /\ config = DEFAULT_OWNERSHIP
    /\ plan = << [agent |-> "Frontend", files |-> <<"apps/web/login.tsx">>],
                 [agent |-> "Backend",  files |-> <<"apps/api/auth.ts">>] >>
    /\ Clean

ConflictsFor(f) == {k \in DOMAIN Res.conflicts : Res.conflicts[k].file = f}

(* A path the check looks at that two or more agents claim. *)
Contested(f) ==
    f \in ClaimedPaths /\ ~Generated(f) /\ ~Shared(f) /\ Cardinality(Claimants(f)) >= 2

(* C8: under strict=true, for every path that matches neither generatedPaths *)
(* nor allowSharedPaths and is claimed by two or more distinct agents,       *)
(* checkOwnership returns ok=false and conflicts holds exactly one entry for *)
(* the path, naming every claiming agent once, however often an agent lists  *)
(* the path.                                                                 *)
C8_OneConflictPerContestedPath ==
    (Checked /\ config.strict) =>
        \A f \in ClaimedPaths :
            Contested(f) =>
                /\ ~Res.ok
                /\ Cardinality(ConflictsFor(f)) = 1
                /\ \A k \in ConflictsFor(f) :
                      /\ Range(Res.conflicts[k].expected) = Claimants(f)
                      /\ Len(Res.conflicts[k].expected) = Cardinality(Claimants(f))

(* A contested path that one of its claimants lists more than once. *)
C8_Witness ==
    /\ Checked /\ config.strict
    /\ \E f \in ClaimedPaths :
          /\ Contested(f)
          /\ \E k \in DOMAIN plan :
                Cardinality({i \in DOMAIN plan[k].files : plan[k].files[i] = f}) >= 2

LockfileViolations(f) ==
    {k \in DOMAIN Res.violations :
        Res.violations[k].kind = "LOCKFILE" /\ Res.violations[k].file = f}

LockfileErrors(f, a) ==
    {k \in DOMAIN Res.errors :
        /\ Res.errors[k].kind = "LOCKFILE"
        /\ Res.errors[k].file = f
        /\ Res.errors[k].agent = a}

OtherClaimants(f) == {a \in Claimants(f) : config.lockfileOwner # Some(a)}

(* Every claimant of f other than lockfileOwner has its lockfile violation   *)
(* and its error.                                                            *)
LockfileReported(f) ==
    /\ Cardinality(LockfileViolations(f)) = Cardinality(OtherClaimants(f))
    /\ \A a \in OtherClaimants(f) : Cardinality(LockfileErrors(f, a)) = 1
    /\ OtherClaimants(f) # {} => ~Res.ok

(* C9 as stated: when lockfileOwner is set and strict=true, every claimant   *)
(* other than lockfileOwner of a lockfile path yields a lockfile violation   *)
(* that is also an error, so ok=false.                                       *)
C9_LockfileViolation_AsStated ==
    (Checked /\ config.strict /\ config.lockfileOwner # None) =>
        \A f \in ClaimedPaths : isLockfile(f) => LockfileReported(f)

(* C9 amended: the same, for lockfile paths that match neither               *)
(* generatedPaths nor allowSharedPaths.                                      *)
C9_LockfileViolationOnCheckedPaths ==
    (Checked /\ config.strict /\ config.lockfileOwner # None) =>
        \A f \in ClaimedPaths :
            (isLockfile(f) /\ ~Generated(f) /\ ~Shared(f)) => LockfileReported(f)

C9_Witness ==
    /\ Checked
    /\ config = DEFAULT_OWNERSHIP
    /\ "Frontend" \in Claimants("pnpm-lock.yaml")
    /\ LockfileErrors("pnpm-lock.yaml", "Frontend") # {}
    /\ ~Res.ok

(* C10: enforceOwnershipOrThrow throws if and only if checkOwnership on the  *)
(* same plan and config returns ok=false; otherwise it returns exactly that  *)
(* result; an empty plan never throws, under any config.                     *)
C10_EnforceThrowsIffNotOk ==
    ownCall = "enforceOwnershipOrThrow" =>
        LET res == checkOwnership(plan, config)
        IN  /\ ownThrew <=> ~res.ok
            /\ ~ownThrew => ownResult = Some(res)
            /\ plan = <<>> => ~ownThrew

(* Both outcomes: a call that threw, and (elsewhere) the empty plan returned. *)
C10_Witness ==
    /\ ownCall = "enforceOwnershipOrThrow"
    /\ ownThrew
    /\ plan # <<>>

C10_WitnessEmptyPlan ==
    /\ ownCall = "enforceOwnershipOrThrow"
    /\ ~ownThrew
    /\ plan = <<>>
    /\ config.strict

(***************************************************************************)
(* Claims about execute (checked under Spec)                               *)
(***************************************************************************)
Returned == pc = "done" /\ execResult # None

(* Department workspace i came back without a manifest: its commit contract *)
(* failed (verify invalid and enforceCommit unsuccessful) or its task threw. *)
ContractFailed(i) ==
    /\ tasks[i].state = "resolved"
    /\ tasks[i].result[1].manifest = None

TestsFailed(i) ==
    /\ tasks[i].state = "resolved"
    /\ tasks[i].result[1].manifest # None
    /\ tasks[i].result[1].manifest[1].testStatus = "fail"

(* C4: if a department workspace fails its commit contract, or its agent    *)
(* task throws, or its manifest has testStatus 'fail', then                 *)
(* mergeCommitsAtomic is never invoked in the run and execute returns       *)
(* success=false.                                                           *)
C4_FailedWorkspaceNeverMerged ==
    (\E i \in DOMAIN tasks : ContractFailed(i) \/ TestsFailed(i)) =>
        /\ mergeCalls = 0
        /\ Returned => ~execResult[1].success

PreflightFailed == preflight # None /\ ~preflight[1].ok

(* C5: if runPreflight returns ok=false at the start of execute, no later   *)
(* phase runs: spawn is never called, no agent is executed, the merge is    *)
(* never invoked, and execute returns success=false.                        *)
C5_PreflightFailureStopsRun ==
    PreflightFailed =>
        /\ phases = <<"preflight">>
        /\ spawnCalls = 0 /\ registry = {}
        /\ \A i \in DOMAIN tasks : tasks[i].state = "pending"
        /\ mergeCalls = 0 /\ mergeResult = NoResult /\ target = <<>>
        /\ Returned /\ ~execResult[1].success

C5_Witness ==
    /\ PreflightFailed
    /\ Returned
    /\ parallel /\ agents = Some(<<"ProjectLead", "Improver">>)

(* The planned changes of the run: each department agent with the files    *)
(* its task changes.                                                        *)
PlannedChanges ==
    [i \in DOMAIN tasks |-> [agent |-> tasks[i].agent, files |-> planned[i]]]

(* C6: with parallel=true, department workspaces are spawned only if the    *)
(* ownership check over the agents' planned changes passed: a planned-change *)
(* set that checkOwnership rejects never leads to a workspace being spawned. *)
C6_SpawnOnlyAfterOwnershipPassed ==
    (parallel /\ \E i \in DOMAIN tasks : tasks[i].state \in {"running", "resolved"})
        => checkOwnership(PlannedChanges, config).ok

Manifest(agent, filesChanged, noOp, testStatus, riskFlags) ==
    [agent |-> agent, worktree |-> "feat-" \o agent, headCommit |-> Some(ManifestCommit),
     noOp |-> noOp, summary |-> "work of " \o agent, filesChanged |-> filesChanged,
     testStatus |-> testStatus, riskFlags |-> riskFlags]

(* Manifests that differ in who touched what. *)
TouchingManifests ==
    {Manifest(a, fs, n, "pass", <<>>) :
        a \in {"Frontend", "Backend"},
        fs \in {<<"shared/types.ts">>, <<"shared/types.ts", "shared/types.ts">>},
        n \in BOOLEAN}

(* Manifests that differ in test status and declared risk. *)
RiskyManifests ==
    {Manifest("Frontend", <<"apps/api/auth.ts">>, FALSE, st, fl) :
        st \in {"pass", "fail"},
        fl \in {<<>>, <<"db-migration">>, <<"security-sensitive">>, <<"breaking-change">>,
                <<"touches-auth">>, <<"performance-critical">>}}
    \cup {Manifest("CONFLICT", <<>>, FALSE, st, fl) :
            st \in {"pass", "fail"}, fl \in {<<>>, <<"db-migration">>}}

ManifestUniverse == TouchingManifests \cup RiskyManifests

InitReview ==
    /\ strictMode = TRUE
    /\ pmManifests \in SeqUpTo(ManifestUniverse, MaxManifests)
    /\ pmCall = "none"
    /\ pmResult = NoResult
    /\ ContractIdle
    /\ WorktreeIdle
    /\ PreflightIdle
    /\ RouterIdle
    /\ MergeIdle
    /\ OwnIdle
    /\ ExecIdle

NextReview ==
    \/ setStrictMode
    \/ CallReview
    \/ CallDetectConflicts
    \/ CallCreateManifest
    \/ CallValidateManifest

SpecReview == InitReview /\ [][NextReview]_vars

(***************************************************************************)
(* The inputs of SpecWorktree: a fresh manager in a repository as earlier  *)
(* runs may have left it                                                   *)
(***************************************************************************)
(* What an earlier run may have left under one name: nothing, its branch,  *)
(* its branch with the linked worktree, or a plain directory.              *)
Leftovers ==
    {[branch |-> None, dir |-> None]}
    \cup {[branch |-> Some(r), dir |-> None] : r \in Refs}
    \cup {[branch |-> Some(r), dir |-> Some(Dir(r, TRUE))] : r \in Refs}
    \cup {[branch |-> None, dir |-> Some(Dir(r, FALSE))] : r \in Refs}

InitWorktree ==
    /\ wtRegistry = <<>>
    /\ \E left \in [WorktreeNames -> Leftovers] :
          /\ gitBranch = [n \in WorktreeNames |-> left[n].branch]
          /\ gitDir = [n \in WorktreeNames |-> left[n].dir]
    /\ wtCreated = {}
    /\ wtCalls = <<>>
    /\ ContractIdle
    /\ ReviewIdle
    /\ PreflightIdle
    /\ RouterIdle
    /\ MergeIdle
    /\ OwnIdle
    /\ ExecIdle

NextWorktree ==
    \/ CallSpawn
    \/ CallCleanup
    \/ CallCleanupAll
    \/ WorktreePruned
    \/ BranchRenamed

SpecWorktree == InitWorktree /\ [][NextWorktree]_vars

(***************************************************************************)
(* The inputs of SpecPreflight: a tree in any condition                    *)
(***************************************************************************)
PreflightTrees ==
    {RepoTree(r, b, st, w, d) :
        r \in BOOLEAN, b \in BOOLEAN, st \in {"clean", "dirty", "unreadable"},
        w \in BOOLEAN, d \in BOOLEAN}

InitPreflight ==
    /\ pfTree \in {t \in PreflightTrees :
                      /\ t.status = "dirty" => t.dirty
                      /\ t.status = "clean" => ~t.dirty}
    /\ pfAllowDirty \in BOOLEAN
    /\ pfResult = NoResult
    /\ ContractIdle
    /\ ReviewIdle
    /\ WorktreeIdle
    /\ RouterIdle
    /\ MergeIdle
    /\ OwnIdle
    /\ ExecIdle

NextPreflight == CallRunPreflight

SpecPreflight == InitPreflight /\ [][NextPreflight]_vars

(***************************************************************************)
(* Router (agents/improver.ts): route, selectAgent, getAgent, escalate     *)
(***************************************************************************)
MaxRouteCalls == 2

(* The task types routed: one per branch of selectAgent that differs, and  *)
(* one type selectAgent does not know.                                     *)
RouteTypes == {"planning", "implementation", "review"}

RouteTasks == [id : RouteIds, type : RouteTypes, critical : BOOLEAN]

(* What agent.execute may reject with. *)
AgentErrors == {"rate limited"}

selectAgent(task) ==
    IF task.type = "research" THEN "ResearchLead"
    ELSE IF task.type = "planning" THEN "ProjectLead"
    ELSE IF task.type = "implementation" THEN "Implementer"
    ELSE IF task.type = "improvement" THEN "Improver"
    ELSE "ProjectLead"

(* getAgent throws for a name the router has no agent for. *)
AgentNotFound(name) == "Agent " \o name \o " not found"

(* String(error) of an Error with the given message. *)
String(error) == "Error: " \o error

TaskStatus(agent, status, error) == [agent |-> agent, status |-> status, error |-> error]

RouteCall(task, state, outcome) == [task |-> task, state |-> state, outcome |-> outcome]

(* A call of route for this task id has not settled yet.  The callers      *)
(* await each route before the next one for the same task.                 *)
InFlight(id) ==
    \E i \in 1..Len(routeCalls) :
        /\ routeCalls[i].task.id = id
        /\ routeCalls[i].state \in {"executing", "escalating"}

(* route escalates a failure when the task is marked critical. *)
EscalatesAlways(task) == TRUE

Escalates(task) == task.critical

(* route up to the await of agent.execute: select the agent, look it up    *)
(* (throwing when it is not registered, before anything is tracked), and   *)
(* track the task as running.                                              *)
RouteBegin ==
    /\ Len(routeCalls) < MaxRouteCalls
    /\ \E task \in RouteTasks :
          /\ ~InFlight(task.id)
          /\ LET agentName == selectAgent(task) IN
             IF agentName \notin Registered
             THEN /\ routeCalls' = Append(routeCalls,
                                          RouteCall(task, "threw", Some(AgentNotFound(agentName))))
                  /\ UNCHANGED routerTasks
             ELSE /\ routeCalls' = Append(routeCalls, RouteCall(task, "executing", None))
                  /\ routerTasks' = [routerTasks EXCEPT
                                        ![task.id] = Some(TaskStatus(agentName, "running", None))]
    /\ UNCHANGED <<notified, contractVars, reviewVars, worktreeVars, preflightVars,
                   mergeVars, ownVars, execVars>>

(* agent.execute resolves: the task is tracked as completed and route      *)
(* returns the result.                                                     *)
AgentResolves ==
    /\ \E i \in 1..Len(routeCalls) :
          /\ routeCalls[i].state = "executing"
          /\ LET id == routeCalls[i].task.id IN
             routerTasks' = [routerTasks EXCEPT
                                ![id] = Some([routerTasks[id][1] EXCEPT !.status = "completed"])]
          /\ routeCalls' = [routeCalls EXCEPT ![i].state = "returned"]
    /\ UNCHANGED <<notified, contractVars, reviewVars, worktreeVars, preflightVars,
                   mergeVars, ownVars, execVars>>

(* agent.execute rejects: the task is tracked as failed with the error's   *)
(* text; a critical task is escalated (the notification is sent before     *)
(* escalate first yields), any other is rethrown at once.                  *)
AgentRejects ==
    /\ \E i \in 1..Len(routeCalls), error \in AgentErrors :
          /\ routeCalls[i].state = "executing"
          /\ LET task == routeCalls[i].task IN
             /\ routerTasks' = [routerTasks EXCEPT
                                   ![task.id] = Some([routerTasks[task.id][1] EXCEPT
                                                         !.status = "failed",
                                                         !.error = Some(String(error))])]
             /\ IF Escalates(task)
                THEN /\ notified' = Append(notified, [call |-> i, task |-> task, error |-> error])
                     /\ routeCalls' = [routeCalls EXCEPT ![i].state = "escalating",
                                                         ![i].outcome = Some(error)]
                ELSE /\ routeCalls' = [routeCalls EXCEPT ![i].state = "threw",
                                                         ![i].outcome = Some(error)]
                     /\ UNCHANGED notified
    /\ UNCHANGED <<contractVars, reviewVars, worktreeVars, preflightVars,
                   mergeVars, ownVars, execVars>>

(* escalate returns and route rethrows the agent's error. *)
EscalationReturns ==
    /\ \E i \in 1..Len(routeCalls) :
          /\ routeCalls[i].state = "escalating"
          /\ routeCalls' = [routeCalls EXCEPT ![i].state = "threw"]
    /\ UNCHANGED <<routerTasks, notified, contractVars, reviewVars, worktreeVars,
                   preflightVars, mergeVars, ownVars, execVars>>

InitRouter ==
    /\ RouterIdle
    /\ ContractIdle
    /\ ReviewIdle
    /\ WorktreeIdle
    /\ PreflightIdle
    /\ MergeIdle
    /\ OwnIdle
    /\ ExecIdle

NextRouter ==
    \/ RouteBegin
    \/ AgentResolves
    \/ AgentRejects
    \/ EscalationReturns

SpecRouter == InitRouter /\ [][NextRouter]_vars

(***************************************************************************)
(* Claims about the commit contract (checked under SpecContract)           *)
(***************************************************************************)
(* C12: for a workspace with uncommitted changes verifyCommitContract       *)
(* returns valid=false; after enforceCommit succeeds on it,                 *)
(* verifyCommitContract on the same workspace returns valid=true with      *)
(* headCommit equal to the commit hash enforceCommit returned.              *)
C12_EnforceThenVerify ==
    \A i \in DOMAIN contractLog :
        LET e == contractLog[i]
        IN  /\ (e.call = "verify" /\ e.before.dirty # {}) => ~e.result.valid
            /\ ( /\ e.call = "enforce" /\ e.before.dirty # {} /\ e.result.success
                 /\ i < Len(contractLog) /\ contractLog[i + 1].call = "verify" )
               => /\ contractLog[i + 1].result.valid
                  /\ contractLog[i + 1].result.headCommit = e.result.commitHash

(* verify fails on the dirty workspace, enforce commits, verify passes. *)
C12_Witness ==
    /\ Len(contractLog) = 3
    /\ contractLog[1].call = "verify" /\ contractLog[1].before.dirty # {}
    /\ ~contractLog[1].result.valid
    /\ contractLog[2].call = "enforce" /\ contractLog[2].result.success
    /\ contractLog[3].call = "verify" /\ contractLog[3].result.valid
    /\ contractLog[3].result.headCommit = contractLog[2].result.commitHash

(***************************************************************************)
(* Claims about manifests and the review (checked under SpecReview)        *)
(***************************************************************************)
Created == pmCall = "createManifest"

CreatedArgs == pmResult[1].args

(* createManifest was given a non-empty agent, worktree and summary and a  *)
(* headCommit.                                                             *)
CreatedComplete ==
    /\ Created
    /\ CreatedArgs.agent # "" /\ CreatedArgs.worktree # "" /\ CreatedArgs.summary # ""
    /\ CreatedArgs.options.headCommit # None

MigrationWithFailingTests(flags, status) ==
    flags # None /\ "db-migration" \in Range(flags[1]) /\ status = Some("fail")

(* C13 as stated: for any non-empty agent, worktree and summary and a      *)
(* supplied headCommit, and any other option values, validateManifest on   *)
(* the output of createManifest returns valid=true with zero errors.       *)
C13_CreatedManifestIsValid_AsStated ==
    CreatedComplete =>
        pmResult[1].validation.valid /\ pmResult[1].validation.errors = <<>>

(* C13, amended: for any non-empty agent, worktree and summary and a       *)
(* supplied headCommit, and any other option values except riskFlags       *)
(* containing 'db-migration' together with testStatus 'fail',              *)
(* validateManifest on the output of createManifest returns valid=true     *)
(* with zero errors.                                                       *)
C13_CreatedManifestIsValid ==
    ( /\ CreatedComplete
      /\ ~MigrationWithFailingTests(CreatedArgs.options.riskFlags,
                                    CreatedArgs.options.testStatus) )
    => pmResult[1].validation.valid /\ pmResult[1].validation.errors = <<>>

(* A complete call that leaves testStatus and riskFlags to their defaults, *)
(* and its manifest passes.                                                *)
C13_Witness ==
    /\ CreatedComplete
    /\ CreatedArgs.options.testStatus = None
    /\ CreatedArgs.options.riskFlags = None
    /\ pmResult[1].validation.valid

Reviewed == pmCall = "review"

Review == pmResult[1]

MigrationFailing(m) == "db-migration" \in Range(m.riskFlags) /\ m.testStatus = "fail"

(* Some error of the list is the given message under the agent's name. *)
HasError(errors, agent, message) ==
    \E i \in DOMAIN errors : errors[i] = agent \o ": " \o message

(* C14: a manifest whose riskFlags contain 'db-migration' and whose        *)
(* testStatus is 'fail' fails validateManifest with a blocking error       *)
(* whatever its other fields are, and no manifest set holding it is        *)
(* approved by review, in strict or non-strict mode.                       *)
C14_FailingMigrationNeverApproved ==
    /\ \A k \in DOMAIN pmManifests :
          MigrationFailing(pmManifests[k]) =>
              LET v == validateManifest(pmManifests[k])
              IN  /\ ~v.valid
                  /\ "BLOCKING: Database migration with failing tests" \in Range(v.errors)
    /\ (Reviewed /\ \E k \in DOMAIN pmManifests : MigrationFailing(pmManifests[k]))
       => ~Review.approved

(* C15: review returns approved=true, in strict mode, iff its error list   *)
(* is empty; in non-strict mode, iff every error of the list is a          *)
(* file-conflict error, so that validation errors and test-failure errors  *)
(* still block approval.                                                   *)
C15_ApprovedIffNoBlockingError ==
    Reviewed =>
        ( Review.approved <=>
            IF strictMode THEN Review.errors = <<>>
            ELSE /\ ValidationErrors(pmManifests, 1) = <<>>
                 /\ \A k \in DOMAIN pmManifests : pmManifests[k].testStatus # "fail" )

ReviewedFlags == UNION {Range(pmManifests[k].riskFlags) : k \in DOMAIN pmManifests}

(* C16: the risk level follows a fixed precedence over the union of all    *)
(* manifests' risk flags: critical if breaking-change is present; else     *)
(* high if db-migration is present; else high if touches-auth or           *)
(* security-sensitive is present; else medium if any other flag is         *)
(* present; else low.                                                      *)
C16_RiskLevelByPrecedence ==
    Reviewed =>
        Review.level =
            IF "breaking-change" \in ReviewedFlags THEN "critical"
            ELSE IF "db-migration" \in ReviewedFlags THEN "high"
            ELSE IF "touches-auth" \in ReviewedFlags \/ "security-sensitive" \in ReviewedFlags
                 THEN "high"
            ELSE IF ReviewedFlags # {} THEN "medium"
            ELSE "low"

(* C17: if any reviewed manifest has testStatus='fail', review records an  *)
(* error and a concern and returns approved=false, in strict and in        *)
(* non-strict mode.                                                        *)
C17_FailedTestsBlockApproval ==
    \A k \in DOMAIN pmManifests :
        (Reviewed /\ pmManifests[k].testStatus = "fail") =>
            /\ HasError(Review.errors, pmManifests[k].agent, "Tests failed")
            /\ "Test failures in one or more worktrees" \in Range(Review.concerns)
            /\ ~Review.approved

(* Two manifests of different agents, neither marked noOp, list one path. *)
SharedPath ==
    \E i, j \in DOMAIN pmManifests :
        /\ pmManifests[i].agent # pmManifests[j].agent
        /\ ~pmManifests[i].noOp /\ ~pmManifests[j].noOp
        /\ Range(pmManifests[i].filesChanged) \cap Range(pmManifests[j].filesChanged) # {}

(* C18: detectConflicts returns a non-empty list iff some path appears in  *)
(* filesChanged of two manifests of different agents that are both not     *)
(* marked noOp; manifests marked noOp never cause a conflict and a path    *)
(* listed by only one agent is never reported.                             *)
C18_ConflictIffSharedPath ==
    pmCall = "detectConflicts" => (pmResult[1] # <<>> <=> SharedPath)

(***************************************************************************)
(* Claims about the workspaces of a run (checked under Spec)               *)
(***************************************************************************)
(* C19: every workspace spawned during execute has been removed from the   *)
(* WorktreeManager registry by the time execute returns, on the success    *)
(* path and on every failure path, unless BAISED_PRESERVE_WORKTREES is     *)
(* 'true'.                                                                 *)
C19_WorkspacesCleanedUpOnReturn ==
    (Returned /\ ~preserveWorktrees) => registry = {}

(***************************************************************************)
(* Claims about the WorktreeManager (checked under SpecWorktree)           *)
(***************************************************************************)
(* C20: spawn(name, baseRef) is idempotent with respect to stale state: if *)
(* a workspace of that name already exists (registered in this manager, or *)
(* left on disk or as a branch by an earlier run) it is torn down and      *)
(* recreated from baseRef, so after spawn returns there is exactly one     *)
(* registry entry for name and its working copy is derived from baseRef.   *)
C20_SpawnRecreatesFromBaseRef ==
    ( /\ wtCalls # <<>>
      /\ wtCalls[Len(wtCalls)].call = "spawn"
      /\ ~wtCalls[Len(wtCalls)].failed )
    => LET c == wtCalls[Len(wtCalls)]
       IN  /\ c.name \in DOMAIN wtRegistry
           /\ wtRegistry[c.name] = c.baseRef
           /\ gitDir[c.name] = Some(Dir(c.baseRef, TRUE))
           /\ gitBranch[c.name] = Some(c.baseRef)

(* The manager and the repository as step i left them. *)
AfterCall(i) == IF i < Len(wtCalls) THEN wtCalls[i + 1].before ELSE TheManager

(* One of the two git commands of cleanup fails in the state wm. *)
GitFails(wm, name) ==
    \/ WorktreeRemove(wm, name).failed
    \/ BranchDelete(WorktreeRemove(wm, name).wm, name).failed

(* C21: cleanup(name) never throws; for a name not in the registry it is a *)
(* no-op; when the worktree removal or the branch deletion fails the entry *)
(* is retained; the entry is removed only after both succeeded.            *)
C21_CleanupNeverThrows ==
    \A i \in DOMAIN wtCalls :
        LET c      == wtCalls[i]
            before == c.before
            after  == AfterCall(i)
        IN  /\ c.call \in {"cleanup", "cleanupAll"} => ~c.failed
            /\ c.call = "cleanup" =>
                  /\ c.name \notin DOMAIN before.registry => after = before
                  /\ (c.name \in DOMAIN before.registry /\ GitFails(before, c.name))
                     => c.name \in DOMAIN after.registry
                  /\ (c.name \in DOMAIN before.registry /\ c.name \notin DOMAIN after.registry)
                     => /\ ~GitFails(before, c.name)
                        /\ after.dir[c.name] = None
                        /\ after.branch[c.name] = None

(* cleanup of a registered workspace whose worktree removal fails: the     *)
(* call returns and the entry is still there.                              *)
C21_Witness ==
    /\ wtCalls # <<>>
    /\ LET c == wtCalls[Len(wtCalls)]
       IN  /\ c.call = "cleanup" /\ ~c.failed
           /\ c.name \in DOMAIN c.before.registry
           /\ WorktreeRemove(c.before, c.name).failed
           /\ c.name \in DOMAIN wtRegistry

(* C22: in every reachable state of a WorktreeManager every workspace     *)
(* that spawn has created and that has not been removed is in the registry *)
(* (reported by list() and exists()), also after a spawn or cleanup that   *)
(* failed part-way.                                                        *)
C22_CreatedWorkspacesAreRegistered ==
    /\ wtCreated \subseteq list(TheManager)
    /\ \A n \in wtCreated : exists(TheManager, n)

(* A workspace this manager created is still on disk after a cleanup whose *)
(* worktree removal failed, and is still registered.                       *)
C22_Witness ==
    /\ wtCalls # <<>>
    /\ LET c == wtCalls[Len(wtCalls)]
       IN  /\ c.call = "cleanup"
           /\ WorktreeRemove(c.before, c.name).failed
           /\ c.name \in wtCreated
           /\ exists(TheManager, c.name)

(***************************************************************************)
(* Claims about the preflight gate (checked under SpecPreflight)           *)
(***************************************************************************)
(* C23: runPreflight evaluates all of its checks whatever failed before    *)
(* and collects every failure into errors; it returns ok=true iff the tree *)
(* is a valid repository, the base reference resolves, the working tree is *)
(* clean or allowDirty is set, and the tree location is writable.          *)
C23_PreflightOkIffAllChecksPass ==
    pfResult # NoResult =>
        LET r == pfResult[1]
        IN  /\ ~pfTree.isRepo => "not a git repo" \in Range(r.errors)
            /\ ~pfTree.baseExists => "baseRef does not exist" \in Range(r.errors)
            /\ (pfTree.status = "dirty" /\ ~pfAllowDirty)
               => "working tree is dirty" \in Range(r.errors)
            /\ ~pfTree.writable => "repo path is not writable" \in Range(r.errors)
            /\ r.ok <=> /\ pfTree.isRepo
                        /\ pfTree.baseExists
                        /\ ~pfTree.dirty \/ pfAllowDirty
                        /\ pfTree.writable

(***************************************************************************)
(* Claims about the order of the merge (checked under SpecMerge)           *)
(***************************************************************************)
(* Where a commit on target came from: its first position in the accepted  *)
(* list.                                                                   *)
InputIndex(c) ==
    CHOOSE i \in DOMAIN commits :
        /\ commits[i].commitHash = c
        /\ \A j \in DOMAIN commits : commits[j].commitHash = c => i <= j

(* Department precedence: 1 back-end and data layer, 2 front-end and UI    *)
(* and every unknown agent, 3 quality assurance, 4 documentation.          *)
Precedence(agent) ==
    IF agent \in {"Backend", "API", "Database"} THEN 1
    ELSE IF agent \in {"QA", "Test", "E2E"} THEN 3
    ELSE IF agent \in {"Docs", "Documentation"} THEN 4
    ELSE 2

(* Commit i of the accepted list comes before commit j in department order. *)
Precedes(i, j) ==
    \/ Precedence(commits[i].agent) < Precedence(commits[j].agent)
    \/ Precedence(commits[i].agent) = Precedence(commits[j].agent) /\ i < j

(* The agents of the explicit order that have a commit, in that order. *)
NamedWithCommit ==
    SelectSeq(mergeOrder[1], LAMBDA a : \E i \in DOMAIN commits : commits[i].agent = a)

C24_WitnessExplicit ==
    /\ MergeSuccess /\ mergeOrder = Some(<<"Frontend", "Backend">>)
    /\ Len(NewOnTarget) = 2
    /\ commits[InputIndex(NewOnTarget[1])].agent = "Frontend"
    /\ commits[InputIndex(NewOnTarget[2])].agent = "Backend"

(***************************************************************************)
(* Claims about the commit contract inside a run (checked under Spec)      *)
(***************************************************************************)
(* A recorded head commit that names a revision made by the agent. *)
RealAndNew(headCommit) ==
    headCommit # NoCommit /\ headCommit[1] # UnknownCommit /\ headCommit[1] # BaseCommit

(* C25: for every workspace whose result reaches review or merge, the      *)
(* headCommit recorded in its manifest and in the commit list handed to    *)
(* mergeCommitsAtomic resolves to a real revision and differs from the     *)
(* baseRef commit: the agent produced at least one commit.                 *)
C25_RecordedHeadCommitIsRealAndNew ==
    /\ reviewResult # None => \A k \in DOMAIN manifests : RealAndNew(manifests[k].headCommit)
    /\ mergeCalls > 0 => \A k \in DOMAIN commits : RealAndNew(Some(commits[k].commitHash))

(* The positions of a step in the steps of department i. *)
StepsAt(i, step) == {k \in DOMAIN tasks[i].steps : tasks[i].steps[k].step = step}

(* C26: for each workspace the agent task completes, then                  *)
(* verifyCommitContract runs, then enforceCommit runs only if verify       *)
(* returned valid=false, then the manifest is created; enforceCommit is    *)
(* never called for a workspace whose verify succeeded, and in parallel    *)
(* mode none of these steps waits on another workspace's steps.            *)
C26_ContractStepsInOrder ==
    \A i \in DOMAIN tasks :
        LET st == tasks[i].steps
        IN  /\ tasks[i].state = "resolved" => (st # <<>> /\ st[1].step = "agent")
            /\ \A k \in StepsAt(i, "verify") : k = 2 /\ st[1].ok
            /\ \A k \in StepsAt(i, "enforce") :
                  k = 3 /\ st[2].step = "verify" /\ ~st[2].ok
            /\ \A k \in StepsAt(i, "manifest") :
                  /\ k = Len(st)
                  /\ st[2].step = "verify"
                  /\ st[2].ok \/ (st[3].step = "enforce" /\ st[3].ok)
            /\ (pc = "implement" /\ parallel /\ tasks[i].state = "running")
               => ENABLED AgentSettles(i)

(* In parallel mode the second workspace went through verify, enforce and *)
(* manifest while the first one's agent is still running.                  *)
C26_Witness ==
    /\ parallel /\ Len(tasks) = 2
    /\ tasks[1].state = "running"
    /\ tasks[2].state = "resolved"
    /\ Len(tasks[2].steps) = 4

(* A workspace whose verify succeeded: the manifest follows at once. *)
C26_WitnessVerified ==
    \E i \in DOMAIN tasks :
        /\ Len(tasks[i].steps) = 3
        /\ tasks[i].steps[2] = Step("verify", TRUE)
        /\ tasks[i].steps[3].step = "manifest"

(* C27: mergeCommitsAtomic is invoked at most once per run, only after    *)
(* all department agent tasks have completed, and only after a review      *)
(* whose input held a manifest for every spawned department workspace      *)
(* returned approved=true.                                                 *)
C27_MergeOnceAfterFullReview ==
    /\ mergeCalls <= 1
    /\ mergeCalls > 0 =>
          /\ \A i \in DOMAIN tasks : tasks[i].state = "resolved"
          /\ reviewResult # None /\ reviewResult[1].approved
          /\ \A i \in DOMAIN tasks :
                \E k \in DOMAIN manifests : manifests[k].agent = tasks[i].agent

RestrictedViolations(f) ==
    {k \in DOMAIN Res.violations :
        Res.violations[k].kind = "RESTRICTED" /\ Res.violations[k].file = f}

RestrictedErrors(f) ==
    {k \in DOMAIN Res.errors :
        Res.errors[k].kind = "RESTRICTED" /\ Res.errors[k].file = f}

(* A restricted path the check looks at. *)
CheckedRestricted(f) ==
    f \in ClaimedPaths /\ Restricted(f) /\ ~Generated(f) /\ ~Shared(f)

SoleClaimantIsAuthority(f) == Claimants(f) = {DesignatedAuthority}

(* C28: for a path matching restrictedPaths and neither generatedPaths nor   *)
(* allowSharedPaths, checkOwnership records a restricted-path violation      *)
(* unless the path's sole claimant is the designated authority, whatever the *)
(* owners map says; under strict the violation is also an error.            *)
C28_RestrictedUnlessAuthority ==
    Checked =>
        \A f \in ClaimedPaths :
            CheckedRestricted(f) =>
                /\ RestrictedViolations(f) # {} <=> ~SoleClaimantIsAuthority(f)
                /\ (config.strict /\ RestrictedViolations(f) # {})
                       => RestrictedErrors(f) # {}

(* The agents that have an owners entry with a pattern matching f. *)
MatchingOwners(f) ==
    {config.owners[k].agent :
        k \in {j \in DOMAIN config.owners : matchesAny(f, config.owners[j].patterns)}}

OwnershipViolations(f) ==
    {k \in DOMAIN Res.violations :
        Res.violations[k].kind = "OWNERSHIP" /\ Res.violations[k].file = f}

OwnershipViolationsOf(f, a) ==
    {k \in OwnershipViolations(f) : Res.violations[k].agent = a}

OwnershipErrorsOf(f, a) ==
    {k \in DOMAIN Res.errors :
        /\ Res.errors[k].kind = "OWNERSHIP"
        /\ Res.errors[k].file = f
        /\ Res.errors[k].agent = a}

(* The claimants of f that are not among its matching owners, when it has    *)
(* matching owners.                                                         *)
ForeignClaimants(f) ==
    IF MatchingOwners(f) = {} THEN {} ELSE Claimants(f) \ MatchingOwners(f)

C29_WitnessNoOwners ==
    /\ Checked
    /\ \E f \in ClaimedPaths :
          /\ ~Generated(f) /\ ~Shared(f)
          /\ MatchingOwners(f) = {}
          /\ Cardinality(Claimants(f)) = 2
          /\ OwnershipViolations(f) = {}

(* The plan with every path matching generatedPaths removed from every       *)
(* PlannedChange.                                                           *)
StripGenerated(pl, cfg) ==
    LET Kept(file) == ~matchesAny(file, cfg.generatedPaths)
    IN  [k \in DOMAIN pl |-> [pl[k] EXCEPT !.files = SelectSeq(@, Kept)]]

GeneratedClaimed == {f \in ClaimedPaths : Generated(f)}

(* C30: a planned path matching generatedPaths contributes nothing to the    *)
(* checkOwnership result: the plan without its generated paths has the same  *)
(* ok, errors, conflicts and violations, also when a generated path is       *)
(* claimed by several agents or matches restricted, owned or lockfile        *)
(* patterns as well.                                                        *)
C30_GeneratedPathsContributeNothing ==
    Checked =>
        LET stripped == checkOwnership(StripGenerated(plan, config), config)
        IN  /\ Res.ok = stripped.ok
            /\ Res.errors = stripped.errors
            /\ Res.conflicts = stripped.conflicts
            /\ Res.violations = stripped.violations
            /\ \A f \in GeneratedClaimed :
                  \A k \in DOMAIN Res.errors : Res.errors[k].file # f

(* Two agents claim a generated path that is restricted and a lockfile as   *)
(* well, next to a path that is reported.                                   *)
C30_Witness ==
    /\ Checked
    /\ \E f \in GeneratedClaimed :
          /\ Cardinality(Claimants(f)) = 2
          /\ Restricted(f) /\ isLockfile(f)
    /\ StripGenerated(plan, config) # plan
    /\ Res.violations # <<>>

(* One agent claims a generated path that another agent owns. *)
C30_WitnessOwned ==
    /\ Checked
    /\ \E f \in GeneratedClaimed :
          /\ MatchingOwners(f) # {}
          /\ Claimants(f) \cap MatchingOwners(f) = {}
    /\ Res.ok /\ Res.violations = <<>>

(* The entries of one list of the result that are about path f. *)
About(findings, f) == {k \in DOMAIN findings : findings[k].file = f}

NoFindingFor(f) ==
    /\ About(Res.conflicts, f) = {}
    /\ About(Res.violations, f) = {}
    /\ About(Res.errors, f) = {}

(* C31: a planned path matching allowSharedPaths produces no conflict,       *)
(* violation or error in checkOwnership, however many agents claim it and    *)
(* also when it matches restrictedPaths, another agent's owners patterns or  *)
(* the lockfile naming rule.                                                *)
C31_SharedPathsProduceNothing ==
    Checked => \A f \in ClaimedPaths : Shared(f) => NoFindingFor(f)

(* Two agents claim a shared path that is restricted and a lockfile. *)
C31_Witness ==
    /\ Checked /\ config.strict
    /\ \E f \in ClaimedPaths :
          /\ Shared(f) /\ ~Generated(f)
          /\ Restricted(f) /\ isLockfile(f)
          /\ Cardinality(Claimants(f)) = 2
          /\ NoFindingFor(f)

(* An agent claims a shared path that only another agent owns. *)
C31_WitnessOwned ==
    /\ Checked /\ config.strict
    /\ \E f \in ClaimedPaths :
          /\ Shared(f) /\ ~Generated(f)
          /\ MatchingOwners(f) # {}
          /\ Claimants(f) \cap MatchingOwners(f) = {}
          /\ NoFindingFor(f)

(* The violations a checked path f is due: one if it is restricted, one per  *)
(* foreign claimant, and one per claimant other than lockfileOwner if it is  *)
(* a lockfile and lockfileOwner is set.                                     *)
ViolationsDue(f) ==
    (IF Restricted(f) THEN 1 ELSE 0)
    + Cardinality(ForeignClaimants(f))
    + (IF config.lockfileOwner # None /\ isLockfile(f)
       THEN Cardinality(OtherClaimants(f)) ELSE 0)

ConflictsDue(f) == IF Cardinality(Claimants(f)) >= 2 THEN 1 ELSE 0

C32_WitnessStrict ==
    /\ Checked /\ config.strict
    /\ \E f \in ClaimedPaths :
          /\ About(Res.conflicts, f) # {}
          /\ Cardinality(About(Res.violations, f)) >= 2
          /\ Cardinality(About(Res.errors, f)) >= 3
    /\ ~Res.ok

(* A lockfile path whose only claimant is the lockfileOwner. *)
OwnedLockfile(f) ==
    /\ f \in ClaimedPaths
    /\ isLockfile(f)
    /\ config.lockfileOwner # None
    /\ Claimants(f) = {config.lockfileOwner[1]}

(* C33: the lockfileOwner is the one agent permitted to claim a lockfile     *)
(* path: when it is the sole claimant of a lockfile path, checkOwnership     *)
(* records no finding for the path, and returns ok=true when the plan claims *)
(* nothing else, DEFAULT_OWNERSHIP included.                                *)
C33_LockfileOwnerMayClaimLockfile ==
    Checked =>
        \A f \in ClaimedPaths :
            OwnedLockfile(f) =>
                /\ NoFindingFor(f)
                /\ ClaimedPaths = {f} => Res.ok

Validated  == pmCall = "validateManifest"
Validation == pmResult[1]

(* What the claim lists as making a manifest invalid. *)
Invalidating(m) ==
    \/ m.agent = "" \/ m.worktree = "" \/ m.summary = "" \/ m.headCommit = NoCommit
    \/ m.filesChanged = NotAnArray
    \/ m.testStatus \notin {"pass", "fail", "skipped"}
    \/ ("db-migration" \in Range(m.riskFlags) /\ m.testStatus = "fail")

UnknownFlags(m) == Range(m.riskFlags) \ validRiskFlags

(* C34: validateManifest returns valid=false if and only if agent, worktree, *)
(* summary or headCommit is missing or empty, filesChanged is not a          *)
(* sequence, testStatus is not one of pass/fail/skipped, or riskFlags has    *)
(* db-migration while testStatus is fail; unknown risk flags and risky flag  *)
(* combinations add warnings only.                                          *)
C34_InvalidIffListedDefect ==
    Validated =>
        /\ ~Validation.valid <=> Invalidating(pmManifests[1])
        /\ UnknownFlags(pmManifests[1]) # {} => Validation.warnings # <<>>
        /\ {"touches-auth", "breaking-change"} \subseteq Range(pmManifests[1].riskFlags)
              => Validation.warnings # <<>>

(* A manifest with an unknown flag next to db-migration and passing tests   *)
(* is valid, with a warning.                                                *)
C34_Witness ==
    /\ Validated
    /\ UnknownFlags(pmManifests[1]) # {}
    /\ "db-migration" \in Range(pmManifests[1].riskFlags)
    /\ Validation.valid
    /\ Validation.warnings # <<>>

(* A manifest whose only defect is that filesChanged is not an array. *)
C34_WitnessNotArray ==
    /\ Validated
    /\ pmManifests[1].filesChanged = NotAnArray
    /\ Len(Validation.errors) = 1
    /\ ~Validation.valid

(* A manifest whose only defect is the missing headCommit. *)
C34_WitnessNoCommit ==
    /\ Validated
    /\ pmManifests[1].headCommit = NoCommit
    /\ Len(Validation.errors) = 1
    /\ ~Validation.valid

(* Department call i has spawned its workspace. *)
Launched(i) == tasks[i].state # "pending"

SameWorkspace(i, j) == branchName(tasks[i].agent) = branchName(tasks[j].agent)

(* C35: within one run of execute the workspace names spawned for the        *)
(* agents list are pairwise distinct, so no two agent tasks running at the   *)
(* same time have the same workspace, for every agents list, with duplicate  *)
(* names or names that differ in letter case only.                          *)
C35_OneWorkspacePerAgent ==
    \A i, j \in DOMAIN tasks :
        (i # j /\ Launched(i) /\ Launched(j)) => ~SameWorkspace(i, j)

(* The elements of a finite set in some order, each once. *)
RECURSIVE Listed(_)
Listed(S) ==
    IF S = {} THEN <<>>
    ELSE LET x == CHOOSE y \in S : TRUE IN <<x>> \o Listed(S \ {x})

(* One manifest per agent of the plan, listing exactly the files the agent   *)
(* planned, each once.                                                      *)
PlanManifests ==
    LET who == Listed({plan[k].agent : k \in DOMAIN plan})
    IN  [i \in DOMAIN who |->
            Manifest(who[i], Listed({f \in ClaimedPaths : who[i] \in Claimants(f)}),
                     FALSE, "pass", <<>>)]

(* C36: the pre-spawn and the post-hoc conflict check agree: if a plan       *)
(* passes checkOwnership with no conflicts, paths shared through             *)
(* allowSharedPaths or excluded through generatedPaths included, and each    *)
(* agent's manifest lists exactly its planned files, then review over the    *)
(* manifests reports no conflicts and does not reject because of conflicts.  *)
C36_ReviewAgreesWithOwnership ==
    (Checked /\ Res.ok /\ Res.conflicts = <<>>) =>
        LET rev == review(PlanManifests, TRUE)
        IN  /\ rev.conflicts = <<>>
            /\ \A k \in DOMAIN rev.errors : ~StartsWith(rev.errors[k], "CONFLICT:")
            /\ rev.approved

(* The plan as its sequence of (agent, file) claims, and the plans that      *)
(* leave one claim out or exchange two neighbouring claims.                  *)
PlanClaims == Visits(plan, 1)

WithoutClaim(i) ==
    GroupClaims(SubSeq(PlanClaims, 1, i - 1) \o SubSeq(PlanClaims, i + 1, Len(PlanClaims)))

WithClaimsSwapped(i) ==
    GroupClaims([k \in DOMAIN PlanClaims |->
                    IF k = i THEN PlanClaims[i + 1]
                    ELSE IF k = i + 1 THEN PlanClaims[i]
                    ELSE PlanClaims[k]])

(* How many entries of one list of a result are of a kind and about a path. *)
Count(findings, kind, f) ==
    Cardinality({k \in DOMAIN findings : findings[k].kind = kind /\ findings[k].file = f})

ViolationKinds == {"RESTRICTED", "OWNERSHIP", "LOCKFILE"}

(* Every conflict and violation of small is in big, path by path and kind by *)
(* kind, and ownership violations agent by agent.                            *)
NothingRemoved(small, big) ==
    /\ Len(small.conflicts) <= Len(big.conflicts)
    /\ Len(small.violations) <= Len(big.violations)
    /\ \A k \in DOMAIN small.conflicts :
          Count(big.conflicts, "CONFLICT", small.conflicts[k].file) = 1
    /\ \A k \in DOMAIN small.violations :
          Count(small.violations, small.violations[k].kind, small.violations[k].file)
              <= Count(big.violations, small.violations[k].kind, small.violations[k].file)
    /\ \A k \in DOMAIN small.violations :
          small.violations[k].kind = "OWNERSHIP" =>
              \E j \in DOMAIN big.violations : big.violations[j] = small.violations[k]
    /\ (config.strict /\ ~small.ok) => ~big.ok

(* Each finding of one has its counterpart, of the same kind and about the   *)
(* same path, in other.                                                     *)
Covers(one, other) ==
    /\ \A k \in DOMAIN one.conflicts :
          Count(other.conflicts, "CONFLICT", one.conflicts[k].file) = 1
    /\ \A k \in DOMAIN one.violations :
          Count(one.violations, one.violations[k].kind, one.violations[k].file)
              = Count(other.violations, one.violations[k].kind, one.violations[k].file)

(* The same ok and the same conflicting and violating paths, kind by kind. *)
SameFindings(one, other) ==
    /\ one.ok = other.ok
    /\ Len(one.conflicts) = Len(other.conflicts)
    /\ Len(one.violations) = Len(other.violations)
    /\ Len(one.errors) = Len(other.errors)
    /\ Covers(one, other)
    /\ Covers(other, one)

(* C37: checkOwnership is monotone in the plan: a plan with one claim more   *)
(* (a further agent, or a further file of an agent) has every conflict and   *)
(* violation of the smaller plan, so under strict a plan that is not ok      *)
(* stays not ok; and ok and the conflicting and violating paths do not       *)
(* depend on the order of the planned changes.                              *)
C37_MonotoneAndOrderFree ==
    Checked =>
        /\ \A i \in DOMAIN PlanClaims :
              NothingRemoved(checkOwnership(WithoutClaim(i), config), Res)
        /\ \A i \in 1..(Len(PlanClaims) - 1) :
              SameFindings(checkOwnership(WithClaimsSwapped(i), config), Res)

(* A plan that is not ok under strict without its last claim and has more    *)
(* violations with it.                                                      *)
C37_Witness ==
    /\ Checked /\ config.strict
    /\ Len(PlanClaims) >= 2
    /\ ~checkOwnership(WithoutClaim(Len(PlanClaims)), config).ok
    /\ Len(checkOwnership(WithoutClaim(Len(PlanClaims)), config).violations)
          < Len(Res.violations)
    /\ ~Res.ok

(* Exchanging two claims changes which agent the restricted-path violation   *)
(* names and the order of the lists, not the paths found.                   *)
C37_WitnessReordered ==
    /\ Checked
    /\ \E i \in 1..(Len(PlanClaims) - 1) :
          /\ checkOwnership(WithClaimsSwapped(i), config).violations # Res.violations
          /\ Res.conflicts # <<>>

(***************************************************************************)
(* Claims about the Router (checked under SpecRouter)                      *)
(***************************************************************************)
(* The calls of route whose selected agent is registered. *)
RoutedCalls == {i \in 1..Len(routeCalls) : selectAgent(routeCalls[i].task) \in Registered}

(* The last call of route made for the task of call i. *)
LatestFor(i) ==
    ~ \E j \in (i + 1)..Len(routeCalls) :
          /\ j \in RoutedCalls
          /\ routeCalls[j].task.id = routeCalls[i].task.id

Tracked(i) == routerTasks[routeCalls[i].task.id]

Escalated(i) == \E n \in 1..Len(notified) : notified[n].call = i

(* C38: for a task routed to a registered agent, the tracked status is     *)
(* 'running' while the agent executes; once route has settled it is        *)
(* 'completed' exactly when agent.execute resolved and 'failed' exactly    *)
(* when it rejected, never 'running'; a rejection is rethrown to the       *)
(* caller with the agent's own error, and the escalation channel is        *)
(* invoked exactly when the task is marked critical (and never for a task  *)
(* whose agent resolved).                                                  *)
C38_RouteTracksAndEscalates ==
    \A i \in RoutedCalls :
        LET c == routeCalls[i] IN
        /\ c.state = "executing" =>
              /\ Tracked(i) # None
              /\ Tracked(i)[1].status = "running"
              /\ ~Escalated(i)
        /\ (c.state \in {"returned", "threw"} /\ LatestFor(i)) =>
              /\ Tracked(i) # None
              /\ Tracked(i)[1].status \in {"completed", "failed"}
              /\ Tracked(i)[1].status = "completed" <=> c.state = "returned"
              /\ Tracked(i)[1].status = "failed" <=> c.state = "threw"
        /\ c.state = "returned" => c.outcome = None /\ ~Escalated(i)
        /\ c.state \in {"escalating", "threw"} =>
              /\ c.outcome # None
              /\ c.outcome[1] \in AgentErrors
              /\ (LatestFor(i) => Tracked(i)[1].error = Some(String(c.outcome[1])))
              /\ Escalated(i) <=> c.task.critical
              /\ \A n \in 1..Len(notified) :
                    notified[n].call = i =>
                        notified[n].task = c.task /\ notified[n].error = c.outcome[1]

(* A critical task failed: tracked as failed, escalated, and rethrown. *)
C38_Witness ==
    \E i \in RoutedCalls :
        /\ routeCalls[i].state = "threw"
        /\ routeCalls[i].task.critical
        /\ Tracked(i)[1].status = "failed"
        /\ Escalated(i)

(* A task that is not critical failed while another task was running: it   *)
(* was rethrown without escalation.                                        *)
C38_WitnessNotCritical ==
    \E i, j \in RoutedCalls :
        /\ routeCalls[i].state = "threw"
        /\ ~routeCalls[i].task.critical
        /\ ~Escalated(i)
        /\ routeCalls[j].state = "executing"
        /\ Tracked(j)[1].status = "running"

(***************************************************************************)
(* Claims about how execute ends (checked under Spec)                      *)
(***************************************************************************)
(* Department call i ended in the catch block of runAgentWithCommit: the   *)
(* agent threw, or its commit contract failed.                             *)
AgentOrContractFailed(i) ==
    /\ tasks[i].state = "resolved"
    /\ tasks[i].result[1].manifest = None

(* Some phase of the run failed. *)
PhaseFailed ==
    \/ preflight # None /\ ~preflight[1].ok
    \/ \E i \in DOMAIN tasks : tasks[i].state = "rejected"
    \/ \E i \in DOMAIN tasks : AgentOrContractFailed(i)
    \/ reviewResult # None /\ ~reviewResult[1].approved
    \/ mergeResult # None /\ ~mergeResult[1].success

(* execute rejects only when the factory was not initialized. *)
ThrowsOnlyUninitialized == pc = "threw" => ~initialized

(* A result with success=false carries an error and no finalCommit. *)
FailureCarriesErrorOnly ==
    (Returned /\ ~execResult[1].success) =>
        /\ execResult[1].finalCommit = NoCommit
        /\ execResult[1].error # "none"

(* A result with success=true carries the finalCommit of a successful merge. *)
SuccessCarriesFinalCommit ==
    (Returned /\ execResult[1].success) =>
        /\ mergeResult # None
        /\ mergeResult[1].success
        /\ execResult[1].finalCommit # NoCommit
        /\ execResult[1].finalCommit = mergeResult[1].finalCommit

(* C39: once initialized, execute never rejects; a failure in any phase    *)
(* (preflight, spawn, agent, commit contract, review, merge) is returned   *)
(* as a result with success=false, an error and no finalCommit; a result   *)
(* with success=true carries the finalCommit a successful merge returned;  *)
(* execute throws only when the factory was not initialized.               *)
C39_FailuresReturnedNeverThrown ==
    /\ ThrowsOnlyUninitialized
    /\ (Returned /\ PhaseFailed) => ~execResult[1].success
    /\ FailureCarriesErrorOnly
    /\ SuccessCarriesFinalCommit

====
